---- MODULE Spec2Model ----
(***************************************************************************)
(* Verification model of the HESTIA telemetry observability pipeline:      *)
(*   - the alerting rule engine       (src/lib/alerts.ts)                  *)
(*   - the MQTT telemetry ingest path (src/lib/ingest-service.ts)          *)
(* Times are milliseconds, as in the source.  Confidence scores are kept   *)
(* as integer percentages (0.95 is 95).                                    *)
(***************************************************************************)
EXTENDS Integers, Sequences, FiniteSets, TLC

(***************************************************************************)
(* Bounds of the model.                                                    *)
(***************************************************************************)
\* evaluateRules calls made in one behaviour
MaxCalls == 2
\* resolveAlert calls made in one behaviour
MaxResolves == 1
\* wall-clock timestamp of the oldest event of the pool
T0 == 1200000
\* dedup window and escalation delay of the plugged-in probe rule
ProbeDedupWindowSeconds == 120
ProbeEscalateAfterSeconds == 60
\* messages delivered to the ingest service in one behaviour
MaxMessages == 4
\* config.event_buffer_size of the modelled service
EventBufferSize == 2
\* a burst of messages arrives after at most that many single messages
MaxBurstAfter == 0
\* the clock of the ingest service (Date.now())
IngestNow == 100000000

(***************************************************************************)
(* Program constants of src/lib/alerts.ts.                                 *)
(***************************************************************************)
ReplayConfidencePct == 95
ReplayRecentMs == 60000
ReplayBucketMs == 60000
ReplayDedupWindowSeconds == 300
BypassDedupWindowSeconds == 600

(***************************************************************************)
(* Program constants of src/lib/ingest-service.ts, telemetry-types.ts.     *)
(***************************************************************************)
TELEMETRY_VERSION == "1.0"
FreshUnderMs == 300000
ColdAfterMs == 86400000
FlushBatchMax == 1000
MetricsBatchMax == 500
MetricsFlushThreshold == 100

(***************************************************************************)
(* Telemetry events (the fields the modelled rules read).                  *)
(***************************************************************************)
Ev(cls, home, dev, ts, risk, conf, viol) ==
    [event_class |-> cls, home_id |-> home, device_id |-> dev,
     wall_clock_timestamp |-> ts, risk_level |-> risk, confidence_pct |-> conf,
     boundary_violated |-> viol]

\* a critical replay event that is older than every dedup window
ReplayOld == Ev("replay_protection", "h1", "d1", T0, "critical", 97, FALSE)
\* a critical replay event that is recent for every context time
ReplayNew ==
    Ev("replay_protection", "h1", "d1", T0 + BypassDedupWindowSeconds * 1000,
       "critical", 97, FALSE)
BypassOld == Ev("authority_transition", "h1", "d1", T0, "low", 0, TRUE)
\* the evaluation windows a caller passes: a stale violation; a stale replay
\* followed by a fresh one; a fresh replay and a violation
Windows ==
    {<<BypassOld>>, <<ReplayOld, ReplayNew>>, <<ReplayNew, BypassOld>>}

\* AlertContext: current_time and home_id ("" is the unscoped context)
CtxTimes ==
    {T0 + BypassDedupWindowSeconds * 1000 + d : d \in {-1, 0, 1}}
CtxHomes == {"h1"}
Contexts == [current_time : CtxTimes, home_id : CtxHomes]

(***************************************************************************)
(* Array helpers.                                                          *)
(***************************************************************************)
Filter(s, P(_)) == SelectSeq(s, P)
Some(s, P(_)) == \E i \in 1..Len(s) : P(s[i])
FloorDiv(a, b) == a \div b

(***************************************************************************)
(* The rule set given to the engine: two rules of the catalog and one      *)
(* plugged-in rule ("probe") whose behaviour is fixed at construction.     *)
(***************************************************************************)
Rules == <<"security_replay_attack_probable", "probe",
           "security_authority_bypass">>
\* "throws": its condition or its create_alert throws; "hangs": never returns
ProbeModes == {"disabled", "fires", "throws", "hangs"}
\* the alertSink given to the engine: its promise resolves, rejects or never settles
SinkModes == {"resolves", "rejects", "never_settles"}

\* `${x.device_id || undefined}` inside a template string
DeviceOrUndefined(dev) == IF dev = "" THEN "undefined" ELSE dev

IsCriticalReplay(e) ==
    /\ e.event_class = "replay_protection"
    /\ e.risk_level = "critical"
    /\ e.confidence_pct > ReplayConfidencePct

IsViolation(e) ==
    e.event_class = "authority_transition" /\ e.boundary_violated = TRUE

\* rule.condition(events, ctx) of the catalog rules
Condition(rule, events, ctx) ==
    CASE rule = "security_replay_attack_probable" ->
           LET recent(e) ==
                   /\ IsCriticalReplay(e)
                   /\ ctx.current_time - e.wall_clock_timestamp < ReplayRecentMs
           IN  Some(events, recent)
      [] rule = "security_authority_bypass" ->
           LET relevant(e) ==
                   /\ IsViolation(e)
                   /\ (ctx.home_id = "" \/ e.home_id = ctx.home_id)
           IN  Len(Filter(events, relevant)) > 0
      [] OTHER -> TRUE

\* an Alert as create_alert returns it (resolved_at and correlated_with absent)
Alert(id, rule, home, dev, resources, detected) ==
    [alert_id |-> id, rule_id |-> rule, home_id |-> home, device_id |-> dev,
     affected_resources |-> resources, detected_at |-> detected,
     status |-> "active", resolved_at |-> "unset", correlated_with |-> <<>>]

\* rule.create_alert(events, ctx); id is the value of generateAlertId()
CreateAlert(rule, events, ctx, id) ==
    CASE rule = "security_replay_attack_probable" ->
           LET critical == Filter(events, IsCriticalReplay)[1]
           IN  Alert(id, rule, critical.home_id,
                     DeviceOrUndefined(critical.device_id),
                     <<IF critical.device_id = "" THEN "unknown"
                       ELSE critical.device_id>>,
                     IF critical.wall_clock_timestamp = 0 THEN ctx.current_time
                     ELSE critical.wall_clock_timestamp)
      [] rule = "security_authority_bypass" ->
           LET first == Filter(events, IsViolation)[1]
           IN  Alert(id, rule, first.home_id, DeviceOrUndefined(first.device_id),
                     <<IF first.device_id = "" THEN "unknown"
                       ELSE first.device_id>>,
                     first.wall_clock_timestamp)
      [] OTHER ->
           Alert(id, rule, ctx.home_id, "undefined", <<"probe_resource">>,
                 ctx.current_time)

Key(rule, dev, home, bucket) ==
    [rule |-> rule, dev |-> dev, home |-> home, bucket |-> bucket]

\* rule.dedup_key_fn(alert)
DedupKeyFn(rule, alert) ==
    CASE rule = "security_replay_attack_probable" ->
           Key("replay", alert.device_id, "",
               FloorDiv(alert.detected_at, ReplayBucketMs))
      [] rule = "security_authority_bypass" ->
           Key("bypass", alert.device_id, alert.home_id, 0)
      [] OTHER -> Key("probe", "", alert.home_id, 0)

\* rule.dedup_window_seconds
DedupWindowSeconds(rule) ==
    CASE rule = "security_replay_attack_probable" -> ReplayDedupWindowSeconds
      [] rule = "security_authority_bypass" -> BypassDedupWindowSeconds
      [] OTHER -> ProbeDedupWindowSeconds

\* rule.escalate_after_seconds (0: not declared)
EscalateAfterSeconds(rule) ==
    IF rule = "probe" THEN ProbeEscalateAfterSeconds ELSE 0

(***************************************************************************)
(* State.                                                                  *)
(***************************************************************************)
VARIABLES
    alertHistory,   \* AlertingEngine.alertHistory: the Map, in insertion order
    nextAlertId,    \* generateAlertId(): the next unused alert id
    notified,       \* the alert ids handed to alertSink so far
    cycle,          \* the evaluateRules calls in flight or returned
    calls,          \* evaluateRules calls made so far
    probeMode,      \* behaviour of the plugged-in rule, fixed at construction
    sinkMode,       \* behaviour of the alertSink given to the constructor
    threadBlocked,  \* a rule function never returns: the event loop is stuck
    resolves,       \* resolveAlert calls made so far
    clock,          \* the current_time of the latest evaluateRules call
    lastCall        \* arguments of the evaluateRules call that ran last

avars == <<alertHistory, nextAlertId, notified, cycle, calls, probeMode,
           sinkMode, threadBlocked, resolves, clock, lastCall>>


Cycles == {1, 2}
RuleIdx == 1..Len(Rules)

(***************************************************************************)
(* Map<string, Alert> kept as the sequence of its entries.                 *)
(***************************************************************************)
MapHas(h, k) == \E i \in 1..Len(h) : h[i].key = k
MapGet(h, k) == h[CHOOSE i \in 1..Len(h) : h[i].key = k].alert
MapSet(h, k, a) ==
    IF MapHas(h, k)
    THEN [i \in 1..Len(h) |-> IF h[i].key = k THEN [key |-> k, alert |-> a]
                              ELSE h[i]]
    ELSE Append(h, [key |-> k, alert |-> a])
MapValues(h) == [i \in 1..Len(h) |-> h[i].alert]

(***************************************************************************)
(* AlertingEngine.evaluateRules                                            *)
(***************************************************************************)
\* this.rules.filter((r) => r.enabled)
RuleEnabled(rule) == rule # "probe" \/ probeMode # "disabled"

\* variant: an alert exactly one window after the prior one is emitted
PassesDedupAtWindowEnd(h, key, rule, ctx) ==
    \/ ~MapHas(h, key)
    \/ ctx.current_time - MapGet(h, key).detected_at
         >= DedupWindowSeconds(rule) * 1000

\* the deduplication test: TRUE when the alert is to be emitted
PassesDedup(h, key, rule, ctx) ==
    \/ ~MapHas(h, key)
    \/ ctx.current_time - MapGet(h, key).detected_at
         > DedupWindowSeconds(rule) * 1000

\* variant: an exception ends the loop
AfterCatchAborts(i) == Len(Rules) + 1

\* the loop goes on with the next rule after the catch block
AfterCatch(i) == i + 1

\* the body of the loop for one rule, up to the await: what it comes to
LoopBody(rule, h, events, ctx, id) ==
    IF rule = "probe" /\ probeMode = "hangs" THEN "hangs"
    ELSE IF rule = "probe" /\ probeMode = "throws" THEN "threw"
    ELSE IF ~Condition(rule, events, ctx) THEN "false"
    ELSE LET alert == CreateAlert(rule, events, ctx, id)
         IN  IF PassesDedup(h, DedupKeyFn(rule, alert), rule, ctx)
             THEN "emitted" ELSE "suppressed"

\* the loop from rule i up to its next await, its end, or a rule that hangs
RECURSIVE RunLoop(_, _, _, _, _, _)
RunLoop(i, verdict, h, events, ctx, id) ==
    IF i > Len(Rules) THEN [stop |-> "end", at |-> 0, verdict |-> verdict]
    ELSE IF ~RuleEnabled(Rules[i])
    THEN RunLoop(i + 1, verdict, h, events, ctx, id)
    ELSE LET b == LoopBody(Rules[i], h, events, ctx, id)
             v == [verdict EXCEPT ![i] = b]
         IN  CASE b \in {"emitted", "hangs"} ->
                    [stop |-> b, at |-> i, verdict |-> v]
               [] b = "threw" -> RunLoop(AfterCatch(i), v, h, events, ctx, id)
               [] OTHER -> RunLoop(i + 1, v, h, events, ctx, id)

NoVerdict == [i \in RuleIdx |-> "none"]
NoContext == [current_time |-> 0, home_id |-> ""]
NoCall == [events |-> <<>>, ctx |-> NoContext]
IdleCycle ==
    [pc |-> "idle", events |-> <<>>, ctx |-> NoContext, at |-> 0,
     alerts |-> <<>>, verdict |-> NoVerdict, repeat |-> FALSE]

InFlight(c) == cycle[c].pc \in {"awaiting_sink", "in_rule"}

\* variant: the alert is put in the table only once the sink has taken it
StoreOnEmitWhenDelivered(h, key, alert) ==
    IF sinkMode = "rejects" THEN h ELSE MapSet(h, key, alert)

\* the alert is put in the table before it is handed to the sink
StoreOnEmit(h, key, alert) == MapSet(h, key, alert)

\* cycle c, in state cyc, runs the loop from rule i until it next suspends
Advance(c, cyc, i) ==
    LET r == RunLoop(i, cyc.verdict, alertHistory, cyc.events, cyc.ctx,
                     nextAlertId)
    IN  CASE r.stop = "end" ->
               /\ cycle' = [cycle EXCEPT ![c] =
                     [cyc EXCEPT !.pc = "returned", !.at = 0,
                                 !.verdict = r.verdict, !.events = <<>>,
                                 !.ctx = NoContext]]
               /\ lastCall' = [events |-> cyc.events, ctx |-> cyc.ctx]
               /\ UNCHANGED <<alertHistory, nextAlertId, notified,
                              threadBlocked>>
          [] r.stop = "hangs" ->
               /\ cycle' = [cycle EXCEPT ![c] =
                     [cyc EXCEPT !.pc = "in_rule", !.at = r.at,
                                 !.verdict = r.verdict]]
               /\ threadBlocked' = TRUE
               /\ lastCall' = [events |-> cyc.events, ctx |-> cyc.ctx]
               /\ UNCHANGED <<alertHistory, nextAlertId, notified>>
          [] OTHER ->
               LET rule == Rules[r.at]
                   alert == CreateAlert(rule, cyc.events, cyc.ctx, nextAlertId)
               IN  /\ alertHistory' =
                         StoreOnEmit(alertHistory, DedupKeyFn(rule, alert),
                                     alert)
                   /\ nextAlertId' = nextAlertId + 1
                   /\ notified' = notified \cup {alert.alert_id}
                   /\ cycle' = [cycle EXCEPT ![c] =
                         [cyc EXCEPT !.pc = "awaiting_sink", !.at = r.at,
                                     !.verdict = r.verdict,
                                     !.alerts = Append(@, alert.alert_id)]]
                   /\ lastCall' = [events |-> cyc.events, ctx |-> cyc.ctx]
                   /\ UNCHANGED threadBlocked

\* a caller invokes evaluateRules(events, context)
EvaluateRules(c, events, ctx) ==
    /\ ~threadBlocked
    /\ calls < MaxCalls
    /\ ~InFlight(c)
    /\ \A d \in Cycles : d < c => InFlight(d)
    /\ calls' = calls + 1
    /\ ctx.current_time >= clock
    /\ clock' = ctx.current_time
    /\ Advance(c, [IdleCycle EXCEPT !.events = events, !.ctx = ctx,
                      !.repeat = /\ lastCall = [events |-> events, ctx |-> ctx]
                                 /\ \A d \in Cycles : ~InFlight(d)], 1)
    /\ UNCHANGED <<probeMode, sinkMode, resolves>>

\* the promise of alertSink settles (resolved or rejected) and the call resumes
SinkSettles(c) ==
    /\ ~threadBlocked
    /\ cycle[c].pc = "awaiting_sink"
    /\ sinkMode # "never_settles"
    /\ Advance(c, cycle[c],
               IF sinkMode = "resolves" THEN cycle[c].at + 1
               ELSE AfterCatch(cycle[c].at))
    /\ UNCHANGED <<calls, probeMode, sinkMode, resolves, clock>>

(***************************************************************************)
(* AlertingEngine.resolveAlert, getActiveAlerts                            *)
(***************************************************************************)
\* index of the first entry whose alert has this id, 0 when there is none
FirstWithId(h, alertId) ==
    IF \E i \in 1..Len(h) : h[i].alert.alert_id = alertId
    THEN CHOOSE i \in 1..Len(h) :
            /\ h[i].alert.alert_id = alertId
            /\ \A j \in 1..(i - 1) : h[j].alert.alert_id # alertId
    ELSE 0

\* variant: every alert of the rule of the resolved alert is resolved
ResolveInSameRule(h, alertId) ==
    LET hit == FirstWithId(h, alertId)
    IN  [i \in 1..Len(h) |->
           IF hit # 0 /\ h[i].alert.rule_id = h[hit].alert.rule_id
           THEN [h[i] EXCEPT !.alert.status = "resolved",
                             !.alert.resolved_at = "set"]
           ELSE h[i]]

ResolveIn(h, alertId) ==
    LET hit == FirstWithId(h, alertId)
    IN  [i \in 1..Len(h) |->
           IF i = hit
           THEN [h[i] EXCEPT !.alert.status = "resolved",
                             !.alert.resolved_at = "set"]
           ELSE h[i]]

ResolveAlert(alertId) ==
    /\ ~threadBlocked
    /\ resolves < MaxResolves
    /\ resolves' = resolves + 1
    /\ alertHistory' = ResolveIn(alertHistory, alertId)
    /\ UNCHANGED <<nextAlertId, notified, cycle, calls, probeMode, sinkMode,
                   threadBlocked, clock, lastCall>>

ActiveAlerts(h) ==
    SelectSeq(MapValues(h), LAMBDA a : a.status \in {"active", "escalated"})

\* getActiveAlerts(): the ids of the alerts it returns, in order
GetActiveAlerts(h) ==
    [i \in 1..Len(ActiveAlerts(h)) |-> ActiveAlerts(h)[i].alert_id]

(***************************************************************************)
(* Telemetry ingest service (src/lib/ingest-service.ts).                   *)
(*                                                                         *)
(* A step is one task of the event loop: the code from the arrival of a    *)
(* message, or from the settling of a storage write, up to the next        *)
(* storage write it awaits.  An await on a promise that is already         *)
(* settled (verifySignature, a routeEvent that awaited nothing) resumes    *)
(* in the same task, before any other message is taken.                    *)
(***************************************************************************)
Value(type, fields, version, home, cls, ts, signed) ==
    [type |-> type, fields |-> fields, version |-> version, home_id |-> home,
     event_class |-> cls, wall_clock_timestamp |-> ts,
     signature_valid |-> signed]

RequiredFields == {"version", "home_id", "event_class"}
FreshTs == IngestNow - 1000
OldTs == IngestNow - ColdAfterMs - 1000

\* the payloads sent to the service, each with what it is
Message(label, parses, value) ==
    [label |-> label, parses |-> parses, value |-> value, topic_home |-> "h1"]

JsonNull == Value("null", {}, "", "", "", 0, TRUE)

Messages ==
    { Message("unparseable", FALSE, JsonNull),
      Message("not_object", TRUE, JsonNull),
      Message("not_object", TRUE, Value("number", {}, "", "", "", 0, TRUE)),
      Message("schema_invalid", TRUE,
              Value("object", {"version", "event_class"}, TELEMETRY_VERSION, "",
                    "device_health", FreshTs, TRUE)),
      Message("schema_invalid", TRUE,
              Value("object", RequiredFields, "0.9", "h1", "device_health",
                    FreshTs, TRUE)),
      Message("valid", TRUE,
              Value("object", RequiredFields, TELEMETRY_VERSION, "",
                    "device_health", FreshTs, TRUE)),
      Message("valid", TRUE,
              Value("object", RequiredFields \cup {"parameters"},
                    TELEMETRY_VERSION, "h1", "command_execution", OldTs, TRUE)),
      Message("valid", TRUE,
              Value("object", RequiredFields, TELEMETRY_VERSION, "h1",
                    "security_anomaly", FreshTs, FALSE)) }

\* JSON.parse(payloadBuffer.toString("utf-8")) throws on text that is not JSON
ParseThrows(m) == ~m.parses

\* variant: the version of the event is not looked at
IsTelemetryEventAnyVersion(obj) ==
    /\ obj.type # "null"
    /\ obj.type = "object"
    /\ RequiredFields \subseteq obj.fields

\* isTelemetryEvent(obj)
IsTelemetryEvent(obj) ==
    /\ obj.type # "null"
    /\ obj.type = "object"
    /\ RequiredFields \subseteq obj.fields
    /\ obj.version = TELEMETRY_VERSION

\* reading event.event_class throws a TypeError when event is null
ReadThrows(obj) == obj.type = "null"

CriticalClasses ==
    {"security_anomaly", "authority_transition", "safety_countersignature",
     "certificate_lifecycle", "command_execution"}
NeedsSignatureVerification(event) == event.event_class \in CriticalClasses
\* verifySignature(event): the body returns true
VerifySignature(event) == TRUE
\* the Ed25519 check the body of verifySignature leaves to be written
Ed25519Verifies(event) == event.signature_valid

\* variant: the status does not depend on the outcome of the verification
VerificationStatusIgnoresOutcome(verified) == "verified"

\* the status handleIncomingMessage gives a verified / an unverifiable event
VerificationStatus(verified) == IF verified THEN "verified" ELSE "failed"

\* sanitizeTelemetryEvent(event)
SanitizeTelemetryEvent(event) ==
    LET a == IF event.event_class = "command_execution"
             THEN event.fields \ {"parameters", "parameter_values"}
             ELSE event.fields
        b == IF event.event_class = "planner_output"
             THEN a \ {"user_input", "user_request"}
             ELSE a
    IN  [event EXCEPT !.fields = b]

\* enrichEvent(event, topic)
EnrichEvent(event, topicHome) ==
    [event EXCEPT
       !.home_id = IF event.home_id = "" THEN topicHome ELSE event.home_id,
       !.wall_clock_timestamp =
          IF event.wall_clock_timestamp = 0 THEN IngestNow
          ELSE event.wall_clock_timestamp]

VARIABLES
    stats,          \* TelemetryIngestService.stats
    eventBuffer,    \* TelemetryIngestService.eventBuffer
    metricsBuffer,  \* TelemetryIngestService.metricsBuffer
    handler,        \* the handleIncomingMessage calls, by slot
    flusher,        \* the callback of the flush interval
    immediates,     \* flushMetricsBuffer callbacks queued with setImmediate
    backend,        \* the storage handles of the service
    arrived,        \* messages delivered so far, by what they are
    sink,           \* config.metrics_sink_url and what a POST to it does
    verifier,       \* what verifySignature is: the stub or the Ed25519 check
    lifecycle,      \* start() and stop(): how far they have come
    batches         \* the batches spliced off a buffer whose write is awaited

ivars == <<stats, eventBuffer, metricsBuffer, handler, flusher, immediates,
           backend, arrived, sink, verifier, lifecycle, batches>>

VARIABLES
    traceCall,      \* a trace on its way through enrichTrace and the analyzer
    conditionCall,  \* a call of the condition of a rule of the catalog
    correlateCall,  \* a call of correlateAlerts
    walkCall        \* a walk over the spans of a trace, loop by loop

pvars == <<traceCall, conditionCall, correlateCall, walkCall>>

NoTrace ==
    [spans |-> <<>>, authority_path |-> <<>>, trace_status |-> "",
     signatures_verified |-> 0, signatures_failed |-> 0]
NoChain ==
    [valid |-> FALSE, problems |-> <<>>, verified_spans |-> 0,
     failed_spans |-> 0]
NoTraceCall ==
    [stage |-> "none", jaeger |-> <<>>, trace |-> NoTrace, chain |-> NoChain,
     boundaries |-> [violations |-> <<>>, escalations |-> <<>>]]
NoConditionCall ==
    [stage |-> "none", rule |-> "", events |-> <<>>,
     ctx |-> [current_time |-> 0, home_id |-> "", fleet_size |-> 0,
              eval_window_ms |-> 0],
     fired |-> FALSE]

NoCorrelateCall == [stage |-> "none", alerts |-> <<>>]
NoWalkCall ==
    [stage |-> "none", op |-> "", spans |-> <<>>, current |-> 0, path |-> <<>>,
     at |-> 0, depth |-> 0, indents |-> <<>>, turns |-> 0]

\* no trace, no condition and no list of alerts is being worked on
NoPureCall ==
    /\ traceCall = NoTraceCall
    /\ conditionCall = NoConditionCall
    /\ correlateCall = NoCorrelateCall
    /\ walkCall = NoWalkCall

(***************************************************************************)
(* WsClient (ws.ts).  The WebSockets it has created are kept by number,    *)
(* with their readyState; so are the timers it has set, with their kind    *)
(* and whether they are still set.  0 stands for null.                     *)
(***************************************************************************)
VARIABLES
    socket,          \* this.socket
    reconnectDelay,  \* this.reconnectDelay
    reconnectTimer,  \* this.reconnectTimer
    pingTimer,       \* this.pingTimer
    destroyed,       \* this.destroyed
    sockets,         \* the WebSockets created so far: their readyState
    timers           \* the timers set so far: kind, and set or not

wvars == <<socket, reconnectDelay, reconnectTimer, pingTimer, destroyed,
           sockets, timers>>

\* const INITIAL_DELAY_MS = 1000
INITIAL_DELAY_MS == 1000

\* a WsClient as constructed
WsConstructed ==
    /\ socket = 0
    /\ reconnectDelay = INITIAL_DELAY_MS
    /\ reconnectTimer = 0
    /\ pingTimer = 0
    /\ destroyed = FALSE
    /\ sockets = <<>>
    /\ timers = <<>>

\* AlertingEngine.rules: the rules given to the constructor
VARIABLE rules

cvars == <<rules>>

vars == <<avars, ivars, pvars, wvars, cvars>>

Handlers == {1, 2}
\* "none": the handles are null; "up": every write is fulfilled;
\* "down": every write is rejected
BackendModes == {"none", "up", "down"}
\* "none": no metrics_sink_url; "up": the POST is fulfilled; "down": rejected
MetricsSinkModes == {"none", "up", "down"}
VerifierModes == {"stub", "ed25519"}

NoEvent == [id |-> 0, event_class |-> "", home_id |-> "",
            wall_clock_timestamp |-> 0, fields |-> {},
            signature_verification_status |-> ""]
IdleHandler == [pc |-> "idle", event |-> NoEvent, outcome |-> "none"]
Finished(outcome) == [pc |-> "done", event |-> NoEvent, outcome |-> outcome]

HasStorage == backend # "none"
HasMetricsSink == sink # "none"

\* the message handler is registered and the client has not been ended
Connected == lifecycle \notin {"constructed", "stopped"}
\* the flush interval is set and has not been cleared
IntervalSet == lifecycle \in {"running", "stop_event_write", "stop_metrics_post"}

\* variant: the exception leaves the handler
HandlerEndRethrows(threw) == IF threw THEN "rejected" ELSE "returned"

\* how handleIncomingMessage ends: the outer catch swallows what was thrown
HandlerEnd(threw) == IF threw THEN "caught" ELSE "returned"

Bump(s, counter) == [s EXCEPT ![counter] = @ + 1]

Take(s, n) == SubSeq(s, 1, IF Len(s) < n THEN Len(s) ELSE n)
Drop(s, n) == SubSeq(s, (IF Len(s) < n THEN Len(s) ELSE n) + 1, Len(s))
Ids(s) == {s[i].id : i \in 1..Len(s)}

\* the part of the service's state a task works on; batch is the local
\* constant of flushEventBuffer and flushMetricsBuffer
Service ==
    [stats |-> stats, eventBuffer |-> eventBuffer,
     metricsBuffer |-> metricsBuffer, immediates |-> immediates,
     batch |-> <<>>]

Suspended(st, at) == [pc |-> at, st |-> st]

\* variant: the batch is copied and left in the buffer until it is written
FlushEventBufferCopiesBatch(st) ==
    IF Len(st.eventBuffer) = 0 THEN Suspended(st, "returned")
    ELSE Suspended([st EXCEPT !.batch = Take(st.eventBuffer, FlushBatchMax)],
                   IF HasStorage THEN "event_write" ELSE "returned")

\* flushEventBuffer() up to its await
FlushEventBuffer(st) ==
    IF Len(st.eventBuffer) = 0 THEN Suspended(st, "returned")
    ELSE Suspended([st EXCEPT !.eventBuffer = Drop(@, FlushBatchMax),
                              !.batch = Take(st.eventBuffer, FlushBatchMax)],
                   IF HasStorage THEN "event_write" ELSE "returned")

\* flushMetricsBuffer() up to its await
FlushMetricsBuffer(st) ==
    IF Len(st.metricsBuffer) = 0 THEN Suspended(st, "returned")
    ELSE Suspended([st EXCEPT !.metricsBuffer = Drop(@, MetricsBatchMax),
                              !.batch = Take(st.metricsBuffer, MetricsBatchMax)],
                   IF HasMetricsSink THEN "metrics_post" ELSE "returned")

\* await this.flushEventBuffer(); await this.flushMetricsBuffer();
FlushBoth(st) ==
    LET r == FlushEventBuffer(st)
    IN  IF r.pc = "event_write" THEN r ELSE FlushMetricsBuffer(r.st)

\* feedMetricsPipeline(event)
FeedMetricsPipeline(e, st) ==
    LET mb == Append(st.metricsBuffer, e)
    IN  [st EXCEPT !.metricsBuffer = mb,
                   !.immediates = IF Len(mb) > MetricsFlushThreshold
                                  THEN @ + 1 ELSE @]

\* routeEvent(event) from one of its three parts on, up to the storage write
\* it awaits; then ("fed") the rest of handleIncomingMessage
RECURSIVE RouteFrom(_, _, _)
RouteFrom(part, e, st) ==
    CASE part = "hot" ->
           IF IngestNow - e.wall_clock_timestamp < FreshUnderMs /\ HasStorage
           THEN LET eb == Append(st.eventBuffer, e)
                IN  IF Len(eb) >= EventBufferSize
                    THEN \* flushEventBuffer(): the batch is spliced off
                         Suspended([st EXCEPT
                                      !.eventBuffer = Drop(eb, FlushBatchMax),
                                      !.batch = Take(eb, FlushBatchMax)],
                                   "flush_write")
                    ELSE RouteFrom("trace", e, [st EXCEPT !.eventBuffer = eb])
           ELSE RouteFrom("trace", e, st)
      [] part = "trace" ->
           IF e.event_class = "command_execution" /\ HasStorage
           THEN Suspended(st, "trace_write")
           ELSE RouteFrom("cold", e, st)
      [] part = "cold" ->
           IF IngestNow - e.wall_clock_timestamp > ColdAfterMs /\ HasStorage
           THEN Suspended(st, "cold_write")
           ELSE RouteFrom("fed", e, st)
      [] OTHER -> Suspended(FeedMetricsPipeline(e, st), "done")

\* the batch a writer awaits the write of
Batch(by, slot, s) == [by |-> by, slot |-> slot, ids |-> Ids(s)]
BatchesOf(by, slot) == {b \in batches : b.by = by /\ b.slot = slot}

\* the handler in slot h has come to r: its state is written back
Install(h, r) ==
    /\ stats' = r.st.stats
    /\ eventBuffer' = r.st.eventBuffer
    /\ metricsBuffer' = r.st.metricsBuffer
    /\ immediates' = r.st.immediates
    /\ batches' = (batches \ BatchesOf("handler", h)) \cup
          (IF r.pc = "flush_write" THEN {Batch("handler", h, r.st.batch)}
           ELSE {})
    /\ handler' = [handler EXCEPT ![h] =
          IF r.pc = "done" THEN Finished(r.outcome)
          ELSE [pc |-> r.pc, event |-> r.event, outcome |-> "none"]]

\* the task of handler h, past validation, ends in r
Proceed(h, e, r) ==
    Install(h, [pc |-> r.pc, st |-> r.st, event |-> e,
                outcome |-> HandlerEnd(FALSE)])

Free(h) == handler[h].pc \in {"idle", "done"}

\* what await this.verifySignature(event) gives for the payload
Verified(m) ==
    IF verifier = "stub" THEN VerifySignature(m.value)
    ELSE Ed25519Verifies(m.value)

\* the event handleIncomingMessage makes of a valid payload
Accepted(m, id, verified) ==
    LET v == m.value
        status == IF NeedsSignatureVerification(v)
                  THEN VerificationStatus(verified)
                  ELSE ""
    IN  EnrichEvent(
          SanitizeTelemetryEvent(
            [id |-> id, event_class |-> v.event_class, home_id |-> v.home_id,
             wall_clock_timestamp |-> v.wall_clock_timestamp,
             fields |-> v.fields, signature_verification_status |-> status]),
          m.topic_home)

\* handleIncomingMessage(topic, payload) on a payload that passed validation,
\* from the signature check on, up to the first storage write it awaits
HandleValid(m, verified, st) ==
    LET s1 == IF NeedsSignatureVerification(m.value) /\ ~verified
              THEN Bump(st.stats, "signature_failures") ELSE st.stats
        e == Accepted(m, st.stats.events_received, verified)
        r == RouteFrom("hot", e, [st EXCEPT !.stats = s1])
    IN  [pc |-> r.pc, st |-> r.st, event |-> e]

Ended(st, outcome) ==
    [pc |-> "done", st |-> st, event |-> NoEvent, outcome |-> outcome]

\* handleIncomingMessage(topic, payload) up to the first storage write it
\* awaits, or to its end
HandleIncomingMessage(m, verified, st) ==
    LET s1 == Bump(st.stats, "events_received")
    IN  IF ParseThrows(m)
        THEN Ended([st EXCEPT !.stats = Bump(s1, "events_invalid")],
                   HandlerEnd(FALSE))
        ELSE IF ~IsTelemetryEvent(m.value)
        THEN LET s2 == Bump(s1, "events_invalid")
                 end == HandlerEnd(ReadThrows(m.value))
             IN  Ended([st EXCEPT !.stats = IF end = "caught"
                                            THEN Bump(s2, "storage_errors")
                                            ELSE s2],
                       end)
        ELSE LET r == HandleValid(m, verified,
                         [st EXCEPT !.stats = Bump(s1, "events_valid")])
             IN  [pc |-> r.pc, st |-> r.st, event |-> r.event,
                  outcome |-> HandlerEnd(FALSE)]

\* the broker delivers a message: handleIncomingMessage(topic, payload)
Deliver(h, m) ==
    /\ Connected
    /\ stats.events_received < MaxMessages
    /\ Free(h)
    /\ \A g \in Handlers : g < h => ~Free(g)
    /\ arrived' = Bump(arrived, m.label)
    /\ Install(h, HandleIncomingMessage(m, Verified(m), Service))
    /\ UNCHANGED <<flusher, backend, sink, verifier, lifecycle>>

\* the storage write handler h awaits is fulfilled or rejected
WriteSettles(h) ==
    /\ handler[h].pc \in {"flush_write", "trace_write", "cold_write"}
    /\ LET ok == backend = "up"
           st == IF ok THEN Service
                 ELSE [Service EXCEPT !.stats = Bump(stats, "storage_errors")]
           part == CASE handler[h].pc = "flush_write" -> "trace"
                     [] handler[h].pc = "trace_write" ->
                          IF ok THEN "cold" ELSE "fed"
                     [] OTHER -> "fed"
       IN  Proceed(h, handler[h].event, RouteFrom(part, handler[h].event, st))
    /\ UNCHANGED <<flusher, backend, arrived, sink, verifier, lifecycle>>

\* a task that is not a message handler writes the service's state back
Commit(st) ==
    /\ stats' = st.stats
    /\ eventBuffer' = st.eventBuffer
    /\ metricsBuffer' = st.metricsBuffer
    /\ immediates' = st.immediates

\* the batch of writer by is in flight if r stopped at a write
InFlightBatches(by, r) ==
    (batches \ BatchesOf(by, 0)) \cup
       (IF r.pc = "returned" THEN {} ELSE {Batch(by, 0, r.st.batch)})

\* the write of the event batch has settled: flushEventBuffer counts a
\* rejection, and flushMetricsBuffer() is called
AfterEventWrite(st) ==
    FlushMetricsBuffer(IF backend = "up" THEN st
                       ELSE [st EXCEPT !.stats = Bump(@, "storage_errors")])

\* the flush interval fires: flushEventBuffer(), then flushMetricsBuffer()
Tick ==
    /\ IntervalSet
    /\ flusher = "idle"
    /\ LET r == FlushBoth(Service)
       IN  /\ Commit(r.st)
           /\ flusher' = IF r.pc = "returned" THEN "idle" ELSE r.pc
           /\ batches' = InFlightBatches("interval", r)
    /\ UNCHANGED <<handler, backend, arrived, sink, verifier, lifecycle>>

\* the write or the POST the interval callback awaits settles
FlushSettles ==
    /\ flusher # "idle"
    /\ LET r == IF flusher = "event_write" THEN AfterEventWrite(Service)
                ELSE Suspended(Service, "returned")
       IN  /\ Commit(r.st)
           /\ flusher' = IF r.pc = "returned" THEN "idle" ELSE r.pc
           /\ batches' = InFlightBatches("interval", r)
    /\ UNCHANGED <<handler, backend, arrived, sink, verifier, lifecycle>>

\* a callback queued by feedMetricsPipeline runs: flushMetricsBuffer()
ImmediateFlush ==
    /\ immediates > 0
    /\ LET r == FlushMetricsBuffer([Service EXCEPT !.immediates = @ - 1])
       IN  /\ Commit(r.st)
           /\ batches' = batches \cup
                 (IF r.pc = "returned" THEN {}
                  ELSE {Batch("immediate", 0, r.st.batch)})
    /\ UNCHANGED <<handler, flusher, backend, arrived, sink, verifier,
                   lifecycle>>

\* the POST such a callback awaits settles; a rejection is logged
PostSettles(b) ==
    /\ b \in BatchesOf("immediate", 0)
    /\ batches' = batches \ {b}
    /\ UNCHANGED <<stats, eventBuffer, metricsBuffer, handler, flusher,
                   immediates, backend, arrived, sink, verifier, lifecycle>>

\* n messages handled one after the other, each in its own task and each
\* to its end (the first half of them, then the rest)
RECURSIVE HandleMany(_, _, _, _)
HandleMany(m, verified, n, st) ==
    IF n = 0 THEN [ok |-> TRUE, st |-> st]
    ELSE IF n = 1
    THEN LET r == HandleIncomingMessage(m, verified, st)
         IN  [ok |-> r.pc = "done", st |-> r.st]
    ELSE LET half == HandleMany(m, verified, n \div 2, st)
         IN  IF ~half.ok THEN half
             ELSE HandleMany(m, verified, n - (n \div 2), half.st)

\* the sizes of the bursts: one more than a metrics batch holds
BurstSizes == {MetricsBatchMax + 1}
\* the messages of a burst: fresh events that need no signature check
BurstMessages ==
    {m \in Messages : /\ m.label = "valid"
                      /\ ~NeedsSignatureVerification(m.value)}
\* the messages sent to the service as start() sets it up
StartedMessages ==
    {m \in Messages : m.label = "valid" /\ m.value.signature_valid}

\* the broker delivers n copies of a message back to back, and no other
\* task runs in between
DeliverBurst(m, n) ==
    /\ Connected
    /\ stats.events_received <= MaxBurstAfter
    /\ LET r == HandleMany(m, Verified(m), n, Service)
       IN  /\ r.ok
           /\ Commit(r.st)
    /\ arrived' = [arrived EXCEPT ![m.label] = @ + n]
    /\ UNCHANGED <<handler, flusher, backend, sink, verifier, lifecycle,
                   batches>>

\* start(): the client is connected and subscribed, the flush interval is
\* set; the storage handles are left as they are
Start ==
    /\ lifecycle = "constructed"
    /\ lifecycle' = "running"
    /\ UNCHANGED <<stats, eventBuffer, metricsBuffer, handler, flusher,
                   immediates, backend, arrived, sink, verifier, batches>>

\* stop() past its two flushes: clearInterval, then the handles are closed
\* if there are any, then mqttClient.end()
StopTail == IF HasStorage THEN "stop_close_hot" ELSE "stopped"
\* where stop() is when its flushes have come to r
StopAt(r) ==
    CASE r.pc = "event_write" -> "stop_event_write"
      [] r.pc = "metrics_post" -> "stop_metrics_post"
      [] OTHER -> StopTail

\* stop() is called
StopBegins ==
    /\ lifecycle = "running"
    /\ LET r == FlushBoth(Service)
       IN  /\ Commit(r.st)
           /\ lifecycle' = StopAt(r)
           /\ batches' = InFlightBatches("stop", r)
    /\ UNCHANGED <<handler, flusher, backend, arrived, sink, verifier>>

\* what stop() awaits settles
StopResumes ==
    /\ lifecycle \in {"stop_event_write", "stop_metrics_post",
                      "stop_close_hot", "stop_close_cold", "stop_close_trace"}
    /\ IF lifecycle \in {"stop_event_write", "stop_metrics_post"}
       THEN LET r == IF lifecycle = "stop_event_write"
                     THEN AfterEventWrite(Service)
                     ELSE Suspended(Service, "returned")
            IN  /\ Commit(r.st)
                /\ lifecycle' = StopAt(r)
                /\ batches' = InFlightBatches("stop", r)
       ELSE /\ lifecycle' = CASE lifecycle = "stop_close_hot" -> "stop_close_cold"
                              [] lifecycle = "stop_close_cold" -> "stop_close_trace"
                              [] OTHER -> "stopped"
            /\ UNCHANGED <<stats, eventBuffer, metricsBuffer, immediates,
                           batches>>
    /\ UNCHANGED <<handler, flusher, backend, arrived, sink, verifier>>

(***************************************************************************)
(* Specification of the alerting engine.                                   *)
(***************************************************************************)
NoStats ==
    [events_received |-> 0, events_valid |-> 0, events_invalid |-> 0,
     signature_failures |-> 0, storage_errors |-> 0, backpressure_events |-> 0]
NoneArrived ==
    [unparseable |-> 0, not_object |-> 0, schema_invalid |-> 0, valid |-> 0]

\* the engine as its constructor leaves it
EngineInit ==
    /\ alertHistory = <<>>
    /\ nextAlertId = 1
    /\ notified = {}
    /\ cycle = [c \in Cycles |-> IdleCycle]
    /\ calls = 0
    /\ threadBlocked = FALSE
    /\ lastCall = NoCall
    /\ resolves = 0
    /\ clock = 0

\* the service as its constructor leaves it
ServiceInit ==
    /\ stats = NoStats
    /\ eventBuffer = <<>>
    /\ metricsBuffer = <<>>
    /\ handler = [h \in Handlers |-> IdleHandler]
    /\ flusher = "idle"
    /\ immediates = 0
    /\ arrived = NoneArrived
    /\ lifecycle = "constructed"
    /\ batches = {}

Init ==
    /\ EngineInit
    /\ NoPureCall
    /\ WsConstructed
    /\ rules = Rules
    /\ probeMode \in ProbeModes
    /\ sinkMode \in SinkModes
    /\ ServiceInit
    /\ backend = "none"
    /\ sink = "none"
    /\ verifier = "stub"

Next ==
    \/ \E c \in Cycles, events \in Windows, ctx \in Contexts :
          EvaluateRules(c, events, ctx) /\ UNCHANGED <<ivars, pvars, wvars, cvars>>
    \/ \E c \in Cycles : SinkSettles(c) /\ UNCHANGED <<ivars, pvars, wvars, cvars>>
    \/ \E id \in 0..(nextAlertId - 1) : ResolveAlert(id) /\ UNCHANGED <<ivars, pvars, wvars, cvars>>

Spec == Init /\ [][Next]_vars

(***************************************************************************)
(* Specification of the ingest service with storage backends plugged in.   *)
(***************************************************************************)
\* the services checked: storage and metrics sink both absent, both up or
\* both down, with the stub of verifySignature; and one with the Ed25519 check
Deployments ==
    {[backend |-> b, sink |-> b, verifier |-> "stub"] : b \in BackendModes}
       \cup {[backend |-> "up", sink |-> "up", verifier |-> v] :
                v \in VerifierModes}

IngestInit ==
    /\ ServiceInit
    /\ NoPureCall
    /\ WsConstructed
    /\ rules = Rules
    /\ \E d \in Deployments :
          backend = d.backend /\ sink = d.sink /\ verifier = d.verifier
    /\ EngineInit
    /\ probeMode = "disabled"
    /\ sinkMode = "resolves"

IngestNext ==
    \/ Start /\ UNCHANGED <<avars, pvars, wvars, cvars>>
    \/ \E h \in Handlers, m \in Messages : Deliver(h, m) /\ UNCHANGED <<avars, pvars, wvars, cvars>>
    \/ \E h \in Handlers : WriteSettles(h) /\ UNCHANGED <<avars, pvars, wvars, cvars>>
    \/ Tick /\ UNCHANGED <<avars, pvars, wvars, cvars>>
    \/ FlushSettles /\ UNCHANGED <<avars, pvars, wvars, cvars>>

SpecIngest == IngestInit /\ [][IngestNext]_vars

(***************************************************************************)
(* Specification of the ingest service as start() sets it up: the storage  *)
(* handles stay null, the metrics sink is a matter of configuration, and   *)
(* the service is stopped at some time.                                    *)
(***************************************************************************)
StartedInit ==
    /\ ServiceInit
    /\ NoPureCall
    /\ WsConstructed
    /\ rules = Rules
    /\ backend = "none"
    /\ sink \in MetricsSinkModes
    /\ verifier = "stub"
    /\ EngineInit
    /\ probeMode = "disabled"
    /\ sinkMode = "resolves"

StartedNext ==
    \/ Start /\ UNCHANGED <<avars, pvars, wvars, cvars>>
    \/ \E h \in Handlers, m \in StartedMessages :
          Deliver(h, m) /\ UNCHANGED <<avars, pvars, wvars, cvars>>
    \/ \E m \in BurstMessages, n \in BurstSizes :
          DeliverBurst(m, n) /\ UNCHANGED <<avars, pvars, wvars, cvars>>
    \/ Tick /\ UNCHANGED <<avars, pvars, wvars, cvars>>
    \/ FlushSettles /\ UNCHANGED <<avars, pvars, wvars, cvars>>
    \/ ImmediateFlush /\ UNCHANGED <<avars, pvars, wvars, cvars>>
    \/ \E b \in batches : PostSettles(b) /\ UNCHANGED <<avars, pvars, wvars, cvars>>
    \/ StopBegins /\ UNCHANGED <<avars, pvars, wvars, cvars>>
    \/ StopResumes /\ UNCHANGED <<avars, pvars, wvars, cvars>>

SpecStarted == StartedInit /\ [][StartedNext]_vars

(***************************************************************************)
(* Vocabulary of the properties of the alerting engine.                    *)
(***************************************************************************)
Range(s) == {s[i] : i \in 1..Len(s)}
IndexOf(rule) == CHOOSE i \in RuleIdx : Rules[i] = rule
ProbeIdx == IndexOf("probe")
StoredIds(h) == {h[i].alert.alert_id : i \in 1..Len(h)}
StoredWithId(h, id) == h[FirstWithId(h, id)].alert

\* cycle c takes a step: it is called, or it is resumed after the sink
LoopStep(c) == cycle'[c] # cycle[c]
\* the rule its loop starts from in that step
StepFrom(c) ==
    IF cycle[c].pc # "awaiting_sink" THEN 1
    ELSE IF sinkMode = "resolves" THEN cycle[c].at + 1
    ELSE AfterCatch(cycle[c].at)

\* a prior alert under the key of rule i's alert holds the new one back
HeldBack(i, events, ctx) ==
    LET key == DedupKeyFn(Rules[i],
                          CreateAlert(Rules[i], events, ctx, nextAlertId))
    IN  /\ MapHas(alertHistory, key)
        /\ ctx.current_time - MapGet(alertHistory, key).detected_at
             <= DedupWindowSeconds(Rules[i]) * 1000

\* what the step did with the alert of rule i, read off the engine's state
EmittedBy(c, i, events, ctx) ==
    LET alert == CreateAlert(Rules[i], events, ctx, nextAlertId)
        key == DedupKeyFn(Rules[i], alert)
    IN  /\ MapHas(alertHistory', key)
        /\ MapGet(alertHistory', key) = alert
        /\ alert.alert_id \in notified' \ notified
        /\ Len(cycle'[c].alerts) > 0
        /\ cycle'[c].alerts[Len(cycle'[c].alerts)] = alert.alert_id

DroppedBy(c, i, events, ctx) ==
    LET key == DedupKeyFn(Rules[i],
                          CreateAlert(Rules[i], events, ctx, nextAlertId))
    IN  /\ MapHas(alertHistory', key)
        /\ MapGet(alertHistory', key) = MapGet(alertHistory, key)
        /\ \A id \in (notified' \ notified) \cup Range(cycle'[c].alerts) :
              id >= nextAlertId =>
                 StoredWithId(alertHistory', id).rule_id # Rules[i]

(***************************************************************************)
(* C1.  For every enabled rule whose condition holds, the alert is         *)
(* suppressed exactly when a prior alert is stored under its dedup key     *)
(* with current_time - prior.detected_at <= dedup_window_seconds * 1000.   *)
(* A suppressed alert is not returned, stored or sent to the sink; an      *)
(* alert that is not suppressed is returned, stored under its key and      *)
(* sent to the sink.                                                       *)
(***************************************************************************)
DedupDecides(c, events, ctx, from) ==
    \A i \in from..Len(Rules) :
       LET v == cycle'[c].verdict[i]
       IN  /\ (v \in {"false", "emitted", "suppressed"}
                 /\ Condition(Rules[i], events, ctx))
              => /\ v \in {"emitted", "suppressed"}
                 /\ v = "suppressed" <=> HeldBack(i, events, ctx)
           /\ v = "suppressed" => DroppedBy(c, i, events, ctx)
           /\ v = "emitted" => EmittedBy(c, i, events, ctx)

C1_DedupWindowRule ==
    [][\A c \in Cycles :
          LoopStep(c) => DedupDecides(c, lastCall'.events, lastCall'.ctx,
                                      StepFrom(c))
      ]_vars

\* the only cycle there is has returned: lastCall holds its arguments
ReturnedAlone(c) ==
    /\ cycle[c].pc = "returned"
    /\ lastCall # NoCall
    /\ \A d \in Cycles \ {c} : cycle[d].pc = "idle"

\* a bypass alert was held back one millisecond before the end of its window
C1_Witness ==
    \E c \in Cycles :
       /\ ReturnedAlone(c)
       /\ cycle[c].verdict[IndexOf("security_authority_bypass")] = "suppressed"
       /\ \E i \in 1..Len(alertHistory) :
             /\ alertHistory[i].alert.rule_id = "security_authority_bypass"
             /\ lastCall.ctx.current_time =
                  alertHistory[i].alert.detected_at
                    + BypassDedupWindowSeconds * 1000 - 1

\* the same key is emitted again one millisecond after the end of the window
C1_WitnessAfterWindow ==
    \E c \in Cycles :
       /\ ReturnedAlone(c)
       /\ cycle[c].repeat
       /\ cycle[c].verdict[IndexOf("security_authority_bypass")] = "emitted"
       /\ lastCall.ctx.current_time =
             T0 + BypassDedupWindowSeconds * 1000 + 1

(***************************************************************************)
(* C2.  Re-evaluation is idempotent: a call of evaluateRules with the      *)
(* events and the context of the call that returned just before it emits   *)
(* no alert, also when the window holds events older than the dedup        *)
(* window of the rule.                                                     *)
(***************************************************************************)
CatalogIdx == {i \in RuleIdx : Rules[i] # "probe"}

C2_ReEvaluationEmitsNothing ==
    \A c \in Cycles :
       cycle[c].repeat => \A i \in CatalogIdx : cycle[c].verdict[i] # "emitted"

\* the same, for the rule whose alerts are dated with the context time
ProbeReEvaluationEmitsNothing ==
    \A c \in Cycles : cycle[c].repeat => cycle[c].verdict[ProbeIdx] # "emitted"

ProbeReEvaluated ==
    \E c \in Cycles : cycle[c].repeat /\ cycle[c].verdict[ProbeIdx] = "suppressed"

(***************************************************************************)
(* C3.  Of two overlapping evaluation cycles whose context times lie       *)
(* within the dedup window of a rule, at most one emits an alert for a     *)
(* given dedup key of that rule.                                           *)
(***************************************************************************)
KeyIn(c, i) ==
    DedupKeyFn(Rules[i], CreateAlert(Rules[i], cycle[c].events, cycle[c].ctx, 0))

Distance(a, b) == IF a >= b THEN a - b ELSE b - a

\* both cycles are suspended at the sink and both have emitted rule i's key
BothEmitted(i) ==
    /\ \A c \in Cycles :
          cycle[c].pc = "awaiting_sink" /\ cycle[c].verdict[i] = "emitted"
    /\ KeyIn(1, i) = KeyIn(2, i)
    /\ Distance(cycle[1].ctx.current_time, cycle[2].ctx.current_time)
         <= DedupWindowSeconds(Rules[i]) * 1000

C3_OverlappingCyclesEmitOnce == \A i \in RuleIdx : ~BothEmitted(i)

\* the same, for the rule whose alerts are dated with the context time
OverlappingProbeCyclesEmitOnce == ~BothEmitted(ProbeIdx)

ProbeEmittedAndSuppressed ==
    /\ cycle[1].pc = "awaiting_sink" /\ cycle[1].verdict[ProbeIdx] = "emitted"
    /\ cycle[2].verdict[ProbeIdx] = "suppressed"

(***************************************************************************)
(* C4.  A rule whose condition or create_alert throws is skipped: the      *)
(* call does not fail, the rule leaves the alert-history table as it was,  *)
(* and every later enabled rule is evaluated with the result it would have *)
(* had without the failing rule.                                           *)
(***************************************************************************)
\* rule i was not reached in this step exactly when an earlier rule of the
\* step suspended the call at the sink (or never returned)
ReachedUnlessSuspended(c, i, from) ==
    cycle'[c].verdict[i] = "none"
       <=> \E j \in from..(i - 1) : cycle'[c].verdict[j] \in {"emitted", "hangs"}

LaterRulesUnaffected(c, events, ctx, from) ==
    /\ cycle'[c].pc \in {"awaiting_sink", "returned"}
    /\ \A i \in (ProbeIdx + 1)..Len(Rules) :
          LET v == cycle'[c].verdict[i]
          IN  /\ ReachedUnlessSuspended(c, i, from)
              /\ v # "none" => (v = "false" <=> ~Condition(Rules[i], events, ctx))
              /\ v \in {"emitted", "suppressed"}
                    => (v = "suppressed" <=> HeldBack(i, events, ctx))
    /\ (\A i \in from..Len(Rules) : cycle'[c].verdict[i] # "emitted")
          => /\ alertHistory' = alertHistory
             /\ notified' = notified
             /\ cycle'[c].pc = "returned"
    /\ \A i \in 1..Len(alertHistory') : alertHistory'[i].alert.rule_id # "probe"

C4_ThrowingRuleIsSkipped ==
    [][\A c \in Cycles :
          (/\ LoopStep(c)
           /\ probeMode = "throws"
           /\ StepFrom(c) <= ProbeIdx
           /\ \A j \in StepFrom(c)..(ProbeIdx - 1) :
                 cycle'[c].verdict[j] # "emitted")
             => /\ cycle'[c].verdict[ProbeIdx] = "threw"
                /\ LaterRulesUnaffected(c, lastCall'.events, lastCall'.ctx,
                                        StepFrom(c))
      ]_vars

\* the probe threw and the rule after it emitted its alert
C4_Witness ==
    \E c \in Cycles :
       /\ probeMode = "throws"
       /\ cycle[c].pc = "returned"
       /\ cycle[c].verdict[ProbeIdx] = "threw"
       /\ cycle[c].verdict[IndexOf("security_authority_bypass")] = "emitted"
       /\ \E i \in 1..Len(alertHistory) :
             alertHistory[i].alert.rule_id = "security_authority_bypass"

(***************************************************************************)
(* C5.  When the alert sink rejects, the alert is nevertheless stored in   *)
(* the table with status active, getActiveAlerts returns it, and the       *)
(* remaining rules of the cycle are still evaluated.                       *)
(***************************************************************************)
ActiveIds(h) == Range(GetActiveAlerts(h))

StoredActiveWhenSent ==
    nextAlertId \in notified'
       => /\ nextAlertId \in ActiveIds(alertHistory')
          /\ StoredWithId(alertHistory', nextAlertId).status = "active"

\* the alert whose delivery cycle c is waiting for
Awaited(c) == cycle[c].alerts[Len(cycle[c].alerts)]

RejectionKeepsAlert(c) ==
    /\ Awaited(c) \in ActiveIds(alertHistory)
          => Awaited(c) \in ActiveIds(alertHistory')
    /\ Range(cycle[c].alerts) \subseteq Range(cycle'[c].alerts)
    /\ \A i \in (cycle[c].at + 1)..Len(Rules) :
          RuleEnabled(Rules[i]) => ReachedUnlessSuspended(c, i, StepFrom(c))

C5_SinkRejectionKeepsAlert ==
    [][\A c \in Cycles :
          sinkMode = "rejects"
             => /\ LoopStep(c) => StoredActiveWhenSent
                /\ (LoopStep(c) /\ cycle[c].pc = "awaiting_sink")
                      => RejectionKeepsAlert(c)
      ]_vars

\* the sink rejected the first alert of a cycle; the cycle went on to the
\* last rule, returned, and both alerts are among the active alerts
C5_Witness ==
    \E c \in Cycles :
       /\ sinkMode = "rejects"
       /\ cycle[c].pc = "returned"
       /\ Len(cycle[c].alerts) = 2
       /\ cycle[c].verdict[Len(Rules)] = "emitted"
       /\ Range(cycle[c].alerts) \subseteq ActiveIds(alertHistory)

(***************************************************************************)
(* C6.  An alert leaves status active only by resolveAlert called with     *)
(* its alert_id, and then it is resolved.  resolveAlert(id) changes no     *)
(* other alert, and afterwards getActiveAlerts does not contain id.        *)
(***************************************************************************)
LeavesActive(id) ==
    /\ id \in StoredIds(alertHistory)
    /\ StoredWithId(alertHistory, id).status = "active"
    /\ id \in StoredIds(alertHistory')
    /\ StoredWithId(alertHistory', id).status # "active"

ResolvesOnly(id) ==
    /\ Len(alertHistory') = Len(alertHistory)
    /\ \A i \in 1..Len(alertHistory) :
          \/ alertHistory'[i] = alertHistory[i]
          \/ alertHistory[i].alert.alert_id = id
    /\ id \in StoredIds(alertHistory)
          => StoredWithId(alertHistory', id).status = "resolved"
    /\ id \notin ActiveIds(alertHistory')

C6_ResolveIsTheOnlyWayOut ==
    [][\A id \in 0..nextAlertId :
          /\ LeavesActive(id)
                => /\ StoredWithId(alertHistory', id).status = "resolved"
                   /\ ResolveAlert(id)
          /\ (resolves' # resolves /\ ResolveAlert(id)) => ResolvesOnly(id)
      ]_vars

\* one alert has been resolved while another one of the same rule is active
C6_Witness ==
    \E i, j \in 1..Len(alertHistory) :
       /\ alertHistory[i].alert.status = "resolved"
       /\ alertHistory[j].alert.status = "active"
       /\ alertHistory[i].alert.rule_id = alertHistory[j].alert.rule_id
       /\ alertHistory[i].alert.alert_id \notin ActiveIds(alertHistory)
       /\ alertHistory[j].alert.alert_id \in ActiveIds(alertHistory)

(***************************************************************************)
(* The engine under the scheduling of the event loop: a call suspended at  *)
(* a sink whose promise settles is resumed.  Callers are not obliged to    *)
(* call anything.                                                          *)
(***************************************************************************)
\* the step of the whole system in which cycle c is resumed
Resume(c) == SinkSettles(c) /\ UNCHANGED <<ivars, pvars, wvars, cvars>>

FairSpec == Spec /\ \A c \in Cycles : WF_vars(Resume(c))

(***************************************************************************)
(* C7.  An active alert of a rule that declares escalate_after_seconds,    *)
(* when it is not resolved, eventually gets status escalated and is sent   *)
(* to the sink again (stated for a sink that takes every alert).           *)
(***************************************************************************)
AwaitsEscalation(a) ==
    a.status = "active" /\ EscalateAfterSeconds(a.rule_id) > 0

SomeAwaitEscalation ==
    \E i \in 1..Len(alertHistory) : AwaitsEscalation(alertHistory[i].alert)

\* one of them is escalated, or else all are resolved or replaced in the table
SomeEscalatedOrAllGone ==
    \/ \E i \in 1..Len(alertHistory) : alertHistory[i].alert.status = "escalated"
    \/ ~SomeAwaitEscalation

C7_UnresolvedAlertEscalates ==
    (sinkMode = "resolves" /\ SomeAwaitEscalation) ~> SomeEscalatedOrAllGone

\* what the engine does instead: no alert ever has status escalated
NeverEscalated ==
    \A i \in 1..Len(alertHistory) : alertHistory[i].alert.status # "escalated"

(***************************************************************************)
(* C8.  A rule whose condition or whose sink call never completes does     *)
(* not stall the cycle: a call of evaluateRules that is in flight can      *)
(* always go on (to its later rules and to its return).                    *)
(***************************************************************************)
C8_CycleNeverStalls ==
    \A c \in Cycles : InFlight(c) => ENABLED Resume(c)

\* the same as a progress property of the scheduled engine
EveryCallReturns ==
    \A c \in Cycles : InFlight(c) ~> (cycle[c].pc = "returned")

(***************************************************************************)
(* Vocabulary of the properties of the ingest service.                     *)
(***************************************************************************)
BadLabels == {"unparseable", "not_object", "schema_invalid"}
Awaiting(h) == handler[h].pc \in {"flush_write", "trace_write", "cold_write"}

(***************************************************************************)
(* C9.  handleIncomingMessage never throws or rejects, whatever the        *)
(* message: unparseable JSON, JSON that is not an object (null), a         *)
(* schema-invalid object, or an event whose storage write fails.  A bad    *)
(* message leaves nothing behind but counters, so the message after it is  *)
(* handled as if the bad one had not arrived.                              *)
(***************************************************************************)
\* a bad message ends in its own task and touches nothing but the counters
\* events_received, events_invalid and storage_errors
LeavesOnlyCounters(h) ==
    /\ handler'[h].pc = "done"
    /\ \A g \in Handlers \ {h} : handler'[g] = handler[g]
    /\ UNCHANGED <<eventBuffer, metricsBuffer, flusher, immediates, backend,
                   batches>>
    /\ \A k \in {"events_valid", "signature_failures", "backpressure_events"} :
          stats'[k] = stats[k]

\* a rejected storage write is counted and the handler goes on
FailedWriteIsCounted(h) ==
    /\ stats'.storage_errors = stats.storage_errors + 1
    /\ handler'[h].pc = "done" \/ Awaiting(h)'
    /\ handler'[h].pc = "done" => Len(metricsBuffer') = Len(metricsBuffer) + 1

C9_HandlerNeverThrows ==
    [][\A h \in Handlers :
          /\ handler'[h].outcome # "rejected"
          /\ \A m \in Messages :
                (/\ m.label \in BadLabels
                 /\ arrived' # arrived
                 /\ Deliver(h, m)) => LeavesOnlyCounters(h)
          /\ (backend = "down" /\ WriteSettles(h)) => FailedWriteIsCounted(h)
      ]_vars

\* the payload null has been handled, and a valid event after it has gone
\* through a failing storage write into the metrics buffer
C9_Witness ==
    /\ arrived.not_object > 0
    /\ stats.storage_errors >= 2
    /\ backend = "down"
    /\ Len(metricsBuffer) > 0
    /\ \A h \in Handlers : handler[h].outcome \in {"none", "caught", "returned"}
    /\ \E h \in Handlers : handler[h].outcome = "returned"

(***************************************************************************)
(* C10.  events_invalid is the number of messages that failed JSON parsing *)
(* or the schema check, events_valid the number that passed both, and      *)
(* events_received = events_valid + events_invalid; storage and routing    *)
(* errors change neither counter.                                          *)
(***************************************************************************)
C10_CountersMatchMessages ==
    /\ stats.events_invalid =
          arrived.unparseable + arrived.not_object + arrived.schema_invalid
    /\ stats.events_valid = arrived.valid
    /\ stats.events_received = stats.events_valid + stats.events_invalid

\* invalid and valid messages have been counted and storage errors as well
C10_Witness ==
    /\ arrived.unparseable > 0
    /\ arrived.schema_invalid > 0
    /\ arrived.valid >= 2
    /\ stats.storage_errors > 0
    /\ stats.events_received = MaxMessages
    /\ \A h \in Handlers : ~Awaiting(h)

(***************************************************************************)
(* C11.  An event of a security-critical class whose signature             *)
(* verification fails is not dropped: signature_failures goes up by one,   *)
(* the event carries signature_verification_status "failed", and it is     *)
(* sanitized, enriched, routed and fed to the metrics buffer as the same   *)
(* event would be had its verification succeeded.                          *)
(***************************************************************************)
Unverifiable(m) ==
    /\ IsTelemetryEvent(m.value)
    /\ NeedsSignatureVerification(m.value)
    /\ ~Verified(m)

WithoutStatus(e) == [e EXCEPT !.signature_verification_status = ""]
StatusesErased(s) == [i \in 1..Len(s) |-> WithoutStatus(s[i])]

\* the state the step of handler h leaves is the state r, but for the
\* verification status of the events and the counter of failures
SameButForStatus(h, r) ==
    /\ [stats' EXCEPT !.signature_failures = stats.signature_failures]
          = r.st.stats
    /\ StatusesErased(eventBuffer') = StatusesErased(r.st.eventBuffer)
    /\ StatusesErased(metricsBuffer') = StatusesErased(r.st.metricsBuffer)
    /\ immediates' = r.st.immediates
    /\ handler'[h].pc = r.pc
    /\ WithoutStatus(handler'[h].event) =
          WithoutStatus(IF r.pc = "done" THEN NoEvent ELSE r.event)

\* the event of that step: held by the suspended handler, or the last one
\* fed to the metrics buffer
EventOf(h) ==
    IF handler'[h].pc = "done" THEN metricsBuffer'[Len(metricsBuffer')]
    ELSE handler'[h].event

BatchedIds == UNION {b.ids : b \in batches}
Age(e) == IngestNow - e.wall_clock_timestamp

\* handler h, called with the valid message m, has routed its event: the
\* event is in the event buffer or in the batch flushed off it, and the
\* handler is at, or on its way to, the writes that are due
RoutedByAge(h, m) ==
    LET e == Accepted(m, stats'.events_received, Verified(m))
    IN  /\ Age(e) < FreshUnderMs => e.id \in Ids(eventBuffer') \cup BatchedIds'
        /\ e.event_class = "command_execution"
             => handler'[h].pc \in {"flush_write", "trace_write"}
        /\ Age(e) > ColdAfterMs
             => handler'[h].pc \in {"flush_write", "trace_write", "cold_write"}

C12_EventsRoutedByAge ==
    [][\A h \in Handlers : \A m \in Messages :
          (/\ arrived'.valid # arrived.valid
           /\ IsTelemetryEvent(m.value)
           /\ Deliver(h, m)) => RoutedByAge(h, m)
      ]_vars

\* what the code does: the events are routed by age where storage handles
\* have been plugged in, and nowhere when the handles are null
RoutedByAgeGivenStorage ==
    [][\A h \in Handlers : \A m \in Messages :
          (/\ arrived'.valid # arrived.valid
           /\ IsTelemetryEvent(m.value)
           /\ Deliver(h, m))
          => IF HasStorage THEN RoutedByAge(h, m)
             ELSE /\ UNCHANGED <<eventBuffer, batches>>
                  /\ handler'[h].pc = "done"
      ]_vars

(***************************************************************************)
(* C13.  When a flush of the event buffer or of the metrics buffer fails   *)
(* (the storage write or the metrics POST rejects), the events of the      *)
(* failed batch are not lost: they are back in their buffer, to be         *)
(* attempted again on the next interval tick.                              *)
(***************************************************************************)
\* the batch b was spliced off the metrics buffer (or else the event buffer)
OfMetrics(b) ==
    \/ b.by = "immediate"
    \/ b.by = "interval" /\ flusher = "metrics_post"
    \/ b.by = "stop" /\ lifecycle = "stop_metrics_post"

\* the write of b settles in this step, and it is rejected
Rejected(b) ==
    /\ b \in batches \ batches'
    /\ IF OfMetrics(b) THEN sink = "down" ELSE backend = "down"

C13_FailedBatchIsKept ==
    [][\A b \in batches :
          Rejected(b) =>
             b.ids \subseteq (IF OfMetrics(b) THEN Ids(metricsBuffer')
                              ELSE Ids(eventBuffer'))
      ]_vars

\* what the code does: a batch never comes back to a buffer when its write
\* has settled, whether it was fulfilled or rejected
SettledBatchIsGone ==
    [][\A b \in batches \ batches' :
          b.ids \cap (IF OfMetrics(b) THEN Ids(metricsBuffer')
                      ELSE Ids(eventBuffer')) = {}
      ]_vars

(***************************************************************************)
(* C14.  stop() stops accepting messages first, then flushes the buffers,  *)
(* then closes the storage handles, then disconnects the transport: once   *)
(* stop() has begun, no incoming message is handled and nothing is         *)
(* appended to a buffer.                                                   *)
(***************************************************************************)
StopHasBegun == lifecycle \notin {"constructed", "running"}

C14_StopAcceptsNothing ==
    [][StopHasBegun =>
          /\ arrived' = arrived
          /\ stats'.events_received = stats.events_received
          /\ Ids(eventBuffer') \subseteq Ids(eventBuffer)
          /\ Ids(metricsBuffer') \subseteq Ids(metricsBuffer)
      ]_vars

\* what the code does: messages are handled until the client is ended,
\* which is the last thing stop() does
AcceptsUntilDisconnected ==
    [][lifecycle = "stopped" => arrived' = arrived]_vars

(***************************************************************************)
(* C15.  When stop() completes, the event buffer and the metrics buffer    *)
(* are both empty, whatever the number of events that were buffered when   *)
(* it began.                                                               *)
(***************************************************************************)
C15_StopLeavesBuffersEmpty ==
    lifecycle = "stopped" => Len(eventBuffer) = 0 /\ Len(metricsBuffer) = 0

\* what the code does: stop() takes one batch off each buffer, so it
\* empties a metrics buffer of at most 500 events when no message arrives
\* while it runs
StopTakesOneBatch ==
    [][(lifecycle = "running" /\ lifecycle' # "running")
          => /\ metricsBuffer' = Drop(metricsBuffer, MetricsBatchMax)
             /\ eventBuffer' = Drop(eventBuffer, FlushBatchMax)
      ]_vars

(***************************************************************************)
(* Trace reconstruction (src/lib/trace-explorer.ts).                       *)
(*                                                                         *)
(* A Jaeger span is kept by the fields enrichTrace reads: its ID, the ID   *)
(* of its CHILD_OF reference (0 when there is none) and its tags.  A tag   *)
(* that is absent is the empty string; the boolean tags error and timeout  *)
(* are FALSE when absent.  The operation name and the tag                  *)
(* authority_boundary are sequences of characters.  The value of the tag   *)
(* initiates_planner_call is kept by its typeof and its String().          *)
(***************************************************************************)
AUTHORITY_LEVELS == <<"Device", "HxTP", "Safety", "Planner", "Cloud">>

JaegerSpan(id, parent, level, error, timeout, sigIn, transition, sigStatus) ==
    [spanID |-> id, parent |-> parent, authority_level |-> level,
     error |-> error, timeout |-> timeout, signature_in_valid |-> sigIn,
     authority_transition |-> transition, signature_status |-> sigStatus,
     serviceName |-> "svc", operationName |-> <<"o", "p">>,
     authority_boundary |-> <<>>,
     initiates_planner_call |-> [type |-> "undefined", text |-> "undefined"]]

\* extractAuthority(tags)
ExtractAuthority(s) ==
    IF s.authority_level = "" THEN "Device" ELSE s.authority_level

\* extractStatus(span)
ExtractStatus(s) ==
    IF s.error THEN "failed"
    ELSE IF s.timeout THEN "timeout"
    ELSE "succeeded"

\* the ExecutionSpan enrichTrace makes of a Jaeger span
ToSpan(s) ==
    [span_id |-> s.spanID,
     parent_span_id |-> s.parent,
     service_name |-> s.serviceName,
     authority_level |-> ExtractAuthority(s),
     status |-> ExtractStatus(s),
     signature_in_valid |-> s.signature_in_valid = "true",
     operation_name |-> s.operationName,
     authority_boundary |-> s.authority_boundary,
     tags |-> [authority_transition |-> s.authority_transition,
               signature_status |-> s.signature_status,
               initiates_planner_call |-> s.initiates_planner_call]]

\* the index of the first element of the indices in S, 0 when there is none
FirstOf(S) == IF S = {} THEN 0 ELSE CHOOSE i \in S : \A j \in S : i <= j

\* spans.find((s) => !s.parent_span_id)
RootSpan(spans) == FirstOf({i \in 1..Len(spans) : spans[i].parent_span_id = 0})
\* spans.find((s) => s.span_id === id)
SpanWithId(spans, id) == FirstOf({i \in 1..Len(spans) : spans[i].span_id = id})
\* spans.find((s) => s.parent_span_id === id)
FirstChild(spans, id) ==
    FirstOf({i \in 1..Len(spans) : spans[i].parent_span_id = id})

\* the loop of extractAuthorityPath, from the span at index cur on
RECURSIVE WalkFrom(_, _, _)
WalkFrom(spans, cur, path) ==
    IF cur = 0 THEN path
    ELSE LET level == spans[cur].authority_level
             next == IF level \in Range(path) THEN path
                     ELSE Append(path, level)
         IN  WalkFrom(spans, FirstChild(spans, spans[cur].span_id), next)

\* extractAuthorityPath(spans, rootSpanId); rootSpanId is 0 when undefined
ExtractAuthorityPath(spans, rootSpanId) ==
    WalkFrom(spans, SpanWithId(spans, rootSpanId), <<>>)

\* variant: a span that timed out counts as failed
TraceStatusCountingTimeouts(spans) ==
    LET failed == Cardinality({i \in 1..Len(spans) :
                                 spans[i].status \in {"failed", "timeout"}})
    IN  IF failed = 0 THEN "success"
        ELSE IF failed < Len(spans) THEN "partial_failure"
        ELSE "failure"

\* enrichTrace: the status of the trace
TraceStatus(spans) ==
    LET failed == Cardinality({i \in 1..Len(spans) :
                                 spans[i].status = "failed"})
    IN  IF failed = 0 THEN "success"
        ELSE IF failed < Len(spans) THEN "partial_failure"
        ELSE "failure"

\* enrichTrace(jaegerTrace)
EnrichedTrace(jaeger) ==
    LET spans == [i \in 1..Len(jaeger) |-> ToSpan(jaeger[i])]
        root == RootSpan(spans)
    IN  [spans |-> spans,
         authority_path |->
            ExtractAuthorityPath(spans,
                                 IF root = 0 THEN 0 ELSE spans[root].span_id),
         trace_status |-> TraceStatus(spans),
         signatures_verified |->
            Cardinality({i \in 1..Len(spans) : spans[i].signature_in_valid}),
         signatures_failed |->
            Cardinality({i \in 1..Len(spans) : ~spans[i].signature_in_valid})]

(***************************************************************************)
(* TraceAnalyzer.verifySignatureChain.  A problem string is kept by its    *)
(* parts.  The texts of the tag authority_transition are all of the shape  *)
(* "x:to:y", so that one of them includes the pattern of a pair of levels  *)
(* exactly when it is equal to it.                                         *)
(***************************************************************************)
SignatureProblem(service) ==
    [kind |-> "signature", service |-> service, from |-> "", to |-> "",
     unsigned |-> 0]
TransitionProblem(from, to, unsigned) ==
    [kind |-> "transition", service |-> "", from |-> from, to |-> to,
     unsigned |-> unsigned]

\* `${from}:to:${to}`
TransitionPattern(from, to) == from \o ":to:" \o to
\* typeof authorityTransition === "string" && authorityTransition.includes(p)
IncludesPattern(text, pattern) == text # "" /\ text = pattern

\* the first loop: one problem for each span whose signature is not valid
RECURSIVE SignatureProblems(_, _)
SignatureProblems(spans, i) ==
    IF i > Len(spans) THEN <<>>
    ELSE (IF spans[i].signature_in_valid THEN <<>>
          ELSE <<SignatureProblem(spans[i].service_name)>>)
         \o SignatureProblems(spans, i + 1)

\* the second loop, from the pair at i on
RECURSIVE TransitionProblems(_, _)
TransitionProblems(trace, i) ==
    IF i > Len(trace.authority_path) - 1 THEN <<>>
    ELSE LET from == trace.authority_path[i]
             to == trace.authority_path[i + 1]
             transitionSpans ==
                {k \in 1..Len(trace.spans) :
                    IncludesPattern(trace.spans[k].tags.authority_transition,
                                    TransitionPattern(from, to))}
             validTransitions ==
                {k \in transitionSpans :
                    trace.spans[k].tags.signature_status = "verified"}
             unsigned == Cardinality(transitionSpans)
                           - Cardinality(validTransitions)
         IN  (IF unsigned # 0 /\ Cardinality(transitionSpans) > 0
              THEN <<TransitionProblem(from, to, unsigned)>>
              ELSE <<>>)
             \o TransitionProblems(trace, i + 1)

\* verifySignatureChain(trace)
VerifySignatureChain(trace) ==
    LET problems == SignatureProblems(trace.spans, 1)
                      \o TransitionProblems(trace, 1)
        failed == Cardinality({i \in 1..Len(trace.spans) :
                                 ~trace.spans[i].signature_in_valid})
    IN  [valid |-> failed = 0 /\ Len(problems) = 0,
         problems |-> problems,
         verified_spans |-> Len(trace.spans) - failed,
         failed_spans |-> failed]

(***************************************************************************)
(* The traces handed to enrichTrace.                                       *)
(***************************************************************************)
MaxPathSpans == 3
MaxStatusSpans == 3

\* trees and forests of spans of two authority levels
PathLevels == {"Device", "Cloud"}
PathSpanLists ==
    UNION {{[i \in 1..n |->
                JaegerSpan(i, parent[i], level[i], FALSE, FALSE, "true", "", "")] :
              parent \in [1..n -> 0..n], level \in [1..n -> PathLevels]} :
           n \in 0..MaxPathSpans}

\* a root and its children, each with or without the tags error and timeout
StatusSpanLists ==
    UNION {{[i \in 1..n |->
                JaegerSpan(i, IF i = 1 THEN 0 ELSE 1, "Device", error[i],
                           timeout[i], "true", "", "")] :
              error \in [1..n -> BOOLEAN], timeout \in [1..n -> BOOLEAN]} :
           n \in 0..MaxStatusSpans}

\* a Planner span, its Safety child and that one's Device child, each with
\* or without a transition tag, a signature status and a valid signature
ChainLevels == <<"Planner", "Safety", "Device">>
ChainTags ==
    {"", "planner:to:safety", "Planner:to:Safety", "Safety:to:Device"}
ChainSpanLists ==
    {[i \in 1..3 |->
         JaegerSpan(i, i - 1, ChainLevels[i], FALSE, FALSE, sigIn[i], tag[i],
                    status[i])] :
       sigIn \in [1..3 -> {"true", ""}], tag \in [1..3 -> ChainTags],
       status \in [1..3 -> {"verified", "failed"}]}

\* spans that all name a parent: another span of the list, themselves, or
\* (the id one past the last) a span the list does not hold
OrphanSpanLists ==
    UNION {{[i \in 1..n |->
                JaegerSpan(i, parent[i], level[i], FALSE, FALSE, "true", "", "")] :
              parent \in [1..n -> 1..(n + 1)], level \in [1..n -> PathLevels]} :
           n \in 1..MaxPathSpans}

\* spans with and without a boundary and the tag initiates_planner_call
MaxBoundarySpans == 2
PlannerCallTags ==
    {[type |-> "undefined", text |-> "undefined"],
     [type |-> "boolean", text |-> "true"],
     [type |-> "string", text |-> "true"],
     [type |-> "string", text |-> "false"],
     [type |-> "number", text |-> "1"]}
Operations ==
    {[boundary |-> <<>>, name |-> <<"K", "x">>],
     [boundary |-> <<"k", "_", "o", "n", "l", "y">>, name |-> <<"K", "x">>],
     [boundary |-> <<"k", "_", "o", "n", "l", "y">>, name |-> <<"l", "x">>]}
BoundarySpan(i, level, tag, op) ==
    [JaegerSpan(i, IF i = 1 THEN 0 ELSE 1, level, FALSE, FALSE, "true", "", "")
        EXCEPT !.operationName = op.name,
               !.authority_boundary = op.boundary,
               !.initiates_planner_call = tag]
BoundarySpanLists(n) ==
    {[i \in 1..n |-> BoundarySpan(i, level[i], tag[i], op[i])] :
       level \in [1..n -> {"", "Device", "Cloud"}],
       tag \in [1..n -> PlannerCallTags],
       op \in [1..n -> Operations]}

JaegerTraces ==
    PathSpanLists \cup StatusSpanLists \cup ChainSpanLists \cup OrphanSpanLists

\* enrichTrace is called
EnrichTrace ==
    /\ traceCall.stage = "input"
    /\ traceCall' = [traceCall EXCEPT
                       !.stage = "enriched",
                       !.trace = EnrichedTrace(traceCall.jaeger)]
    /\ UNCHANGED <<avars, ivars, wvars, cvars, conditionCall, correlateCall,
                 walkCall>>

\* TraceAnalyzer.verifySignatureChain is called with the enriched trace
CheckSignatureChain ==
    /\ traceCall.stage = "enriched"
    /\ traceCall' = [traceCall EXCEPT
                       !.stage = "checked",
                       !.chain = VerifySignatureChain(traceCall.trace)]
    /\ UNCHANGED <<avars, ivars, wvars, cvars, conditionCall, correlateCall,
                 walkCall>>

(***************************************************************************)
(* TraceAnalyzer.checkAuthorityBoundaries.  A violation is kept by the     *)
(* three parts of its text, an escalation by the operation name its text   *)
(* ends with.                                                              *)
(***************************************************************************)
\* text.includes(part)
Includes(text, part) ==
    \E i \in 0..(Len(text) - Len(part)) :
        SubSeq(text, i + 1, i + Len(part)) = part
\* text.toLowerCase(), over the letters the operation names are made of
ToLowerCase(text) ==
    [i \in 1..Len(text) |-> IF text[i] = "K" THEN "k" ELSE text[i]]
\* text.split("_")[0]
FirstPart(text) ==
    LET stops == {i \in 1..Len(text) : text[i] = "_"}
    IN  IF stops = {} THEN text ELSE SubSeq(text, 1, FirstOf(stops) - 1)

\* the test of the boundary of a span
ExceedsBoundary(span) ==
    /\ span.authority_boundary # <<>>
    /\ Includes(span.authority_boundary, <<"_", "o", "n", "l", "y">>)
    /\ ~Includes(ToLowerCase(span.operation_name),
                 FirstPart(span.authority_boundary))
\* the test of the privilege escalation pattern
InitiatesPlannerCall(span) ==
    /\ span.authority_level = "Device"
    /\ span.tags.initiates_planner_call.type \in {"string", "number"}
    /\ span.tags.initiates_planner_call.text = "true"

RECURSIVE BoundaryLoop(_, _, _)
BoundaryLoop(spans, i, found) ==
    IF i > Len(spans) THEN found
    ELSE LET span == spans[i]
             violations ==
                 IF ExceedsBoundary(span)
                 THEN Append(found.violations,
                             [service_name |-> span.service_name,
                              operation_name |-> span.operation_name,
                              authority_boundary |-> span.authority_boundary])
                 ELSE found.violations
             escalations ==
                 IF InitiatesPlannerCall(span)
                 THEN Append(found.escalations, span.operation_name)
                 ELSE found.escalations
         IN  BoundaryLoop(spans, i + 1,
                          [violations |-> violations,
                           escalations |-> escalations])

CheckAuthorityBoundariesOf(trace) ==
    BoundaryLoop(trace.spans, 1, [violations |-> <<>>, escalations |-> <<>>])

\* TraceAnalyzer.checkAuthorityBoundaries is called with the enriched trace
CheckAuthorityBoundaries ==
    /\ traceCall.stage = "enriched"
    /\ traceCall' = [traceCall EXCEPT
                       !.stage = "bounded",
                       !.boundaries = CheckAuthorityBoundariesOf(traceCall.trace)]
    /\ UNCHANGED <<avars, ivars, wvars, cvars, conditionCall, correlateCall,
                 walkCall>>

\* the other components, not started
Idle ==
    /\ EngineInit
    /\ probeMode = "disabled"
    /\ sinkMode = "resolves"
    /\ ServiceInit
    /\ backend = "none"
    /\ sink = "none"
    /\ verifier = "stub"
    /\ WsConstructed
    /\ rules = Rules

TraceInit ==
    /\ Idle
    /\ conditionCall = NoConditionCall
    /\ correlateCall = NoCorrelateCall
    /\ walkCall = NoWalkCall
    /\ \E j \in JaegerTraces :
          traceCall = [NoTraceCall EXCEPT !.stage = "input", !.jaeger = j]

TraceNext == EnrichTrace \/ CheckSignatureChain

SpecTrace == TraceInit /\ [][TraceNext]_vars

\* a trace is enriched and its authority boundaries are checked
BoundaryInit ==
    /\ Idle
    /\ conditionCall = NoConditionCall
    /\ correlateCall = NoCorrelateCall
    /\ walkCall = NoWalkCall
    /\ \E n \in 1..MaxBoundarySpans : \E j \in BoundarySpanLists(n) :
          traceCall = [NoTraceCall EXCEPT !.stage = "input", !.jaeger = j]

BoundaryNext == EnrichTrace \/ CheckAuthorityBoundaries

SpecBoundaries == BoundaryInit /\ [][BoundaryNext]_vars

(***************************************************************************)
(* C16.  enrichTrace builds authority_path by walking from the root span   *)
(* (the span with no parent) along the first span, in list order, whose    *)
(* parent is the current span, recording the level of each visited span    *)
(* and removing only consecutive repeats: a walk over Device, Cloud,       *)
(* Device yields [Device, Cloud, Device]; other branches do not count.     *)
(***************************************************************************)
\* the levels of the spans visited by the walk, in order
RECURSIVE VisitedLevels(_, _)
VisitedLevels(spans, cur) ==
    IF cur = 0 THEN <<>>
    ELSE <<spans[cur].authority_level>>
           \o VisitedLevels(spans, FirstChild(spans, spans[cur].span_id))

RECURSIVE WithoutConsecutiveRepeats(_)
WithoutConsecutiveRepeats(s) ==
    IF Len(s) <= 1 THEN s
    ELSE IF s[1] = s[2] THEN WithoutConsecutiveRepeats(Tail(s))
    ELSE <<s[1]>> \o WithoutConsecutiveRepeats(Tail(s))

Enriched == traceCall.stage \in {"enriched", "checked"}

C16_PathKeepsLaterRepeats ==
    Enriched =>
       traceCall.trace.authority_path =
          WithoutConsecutiveRepeats(
             VisitedLevels(traceCall.trace.spans,
                           RootSpan(traceCall.trace.spans)))

\* what the code does: a level is recorded the first time the walk meets
\* it, and never again
PathHasNoRepeats ==
    Enriched =>
       LET path == traceCall.trace.authority_path
           visited == VisitedLevels(traceCall.trace.spans,
                                    RootSpan(traceCall.trace.spans))
       IN  /\ \A i, j \in 1..Len(path) : path[i] = path[j] => i = j
           /\ Range(path) = Range(visited)

\* a walk over Device, Cloud, Device has been enriched
WalkRevisitsLevel ==
    /\ Enriched
    /\ VisitedLevels(traceCall.trace.spans, RootSpan(traceCall.trace.spans))
          = <<"Device", "Cloud", "Device">>

(***************************************************************************)
(* C17.  When the authority path of an enriched trace has Planner          *)
(* immediately followed by Safety and a span tagged authority_transition   *)
(* "planner:to:safety" has a signature_status other than verified,         *)
(* verifySignatureChain returns valid = false and exactly one problem,     *)
(* which names the transition from Planner to Safety.  (The case checked   *)
(* is the one where nothing else is wrong: every span has a valid incoming *)
(* signature and every other tagged span is verified.)                     *)
(***************************************************************************)
\* the tag of the transition from Planner to Safety (telemetry-types.ts)
PlannerToSafety == "planner:to:safety"

\* the spans of a trace whose tag is the given text and that are not verified
UnverifiedTagged(trace, text) ==
    {k \in 1..Len(trace.spans) :
        /\ trace.spans[k].tags.authority_transition = text
        /\ trace.spans[k].tags.signature_status # "verified"}

Follows(path, from, to) ==
    \E i \in 1..(Len(path) - 1) : path[i] = from /\ path[i + 1] = to

\* an unverified Planner-to-Safety span is all that is wrong with the trace
OnlyTransitionUnverified(trace, text) ==
    /\ Follows(trace.authority_path, "Planner", "Safety")
    /\ UnverifiedTagged(trace, text) # {}
    /\ \A k \in 1..Len(trace.spans) :
          /\ trace.spans[k].signature_in_valid
          /\ trace.spans[k].tags.signature_status # "verified"
                => trace.spans[k].tags.authority_transition = text

ReportsPlannerToSafety(trace, chain, text) ==
    /\ chain.valid = FALSE
    /\ chain.problems =
          <<TransitionProblem("Planner", "Safety",
                              Cardinality(UnverifiedTagged(trace, text)))>>

C17_UnverifiedTransitionIsReported ==
    (traceCall.stage = "checked"
       /\ OnlyTransitionUnverified(traceCall.trace, PlannerToSafety))
      => ReportsPlannerToSafety(traceCall.trace, traceCall.chain,
                                PlannerToSafety)

\* what the code does: the same trace counts as valid, with no problem
UnverifiedTransitionPasses ==
    (traceCall.stage = "checked"
       /\ OnlyTransitionUnverified(traceCall.trace, PlannerToSafety))
      => traceCall.chain.valid /\ traceCall.chain.problems = <<>>

\* the transition is reported when the tag spells the levels as the path does
CapitalisedTransitionIsReported ==
    (traceCall.stage = "checked"
       /\ OnlyTransitionUnverified(traceCall.trace, "Planner:to:Safety"))
      => ReportsPlannerToSafety(traceCall.trace, traceCall.chain,
                                "Planner:to:Safety")

CapitalisedTransitionChecked ==
    /\ traceCall.stage = "checked"
    /\ OnlyTransitionUnverified(traceCall.trace, "Planner:to:Safety")

(***************************************************************************)
(* C18.  enrichTrace sets trace_status to success when no span has status  *)
(* failed (the empty list and spans that timed out included), to           *)
(* partial_failure when some but not all spans have status failed, and to  *)
(* failure when all spans have status failed.                              *)
(***************************************************************************)
FailedSpans(trace) ==
    {i \in 1..Len(trace.spans) : trace.spans[i].status = "failed"}
OtherSpans(trace) ==
    {i \in 1..Len(trace.spans) : trace.spans[i].status # "failed"}

C18_TraceStatusCountsFailedSpans ==
    Enriched =>
      LET t == traceCall.trace
      IN  /\ FailedSpans(t) = {} => t.trace_status = "success"
          /\ FailedSpans(t) # {} /\ OtherSpans(t) # {}
                => t.trace_status = "partial_failure"
          /\ FailedSpans(t) # {} /\ OtherSpans(t) = {}
                => t.trace_status = "failure"

\* three spans, one failed and one timed out: partial_failure
C18_Witness ==
    /\ Enriched
    /\ Len(traceCall.trace.spans) = 3
    /\ Cardinality(FailedSpans(traceCall.trace)) = 1
    /\ \E i \in 1..3 : traceCall.trace.spans[i].status = "timeout"
    /\ traceCall.trace.trace_status = "partial_failure"

\* spans that timed out and none failed: success
OnlyTimeoutsSucceed ==
    /\ Enriched
    /\ FailedSpans(traceCall.trace) = {}
    /\ \E i \in 1..Len(traceCall.trace.spans) :
          traceCall.trace.spans[i].status = "timeout"
    /\ traceCall.trace.trace_status = "success"

\* all of three spans failed: failure
AllFailed ==
    /\ Enriched
    /\ Cardinality(FailedSpans(traceCall.trace)) = 3
    /\ traceCall.trace.trace_status = "failure"

(***************************************************************************)
(* The conditions of two rules of the catalog, called with the events of a *)
(* window and a context.  An event is kept by the fields the conditions    *)
(* read; an absent location_geohash is "", an absent total_latency_ms has  *)
(* has_latency FALSE, an absent baseline_metrics.eval_window_ms is 0.      *)
(***************************************************************************)
WindowEvent(cls, home, reconnections, geohash, submitted, hasLatency, latency) ==
    [event_class |-> cls, home_id |-> home,
     reconnection_count |-> reconnections, location_geohash |-> geohash,
     submitted_timestamp |-> submitted, has_latency |-> hasLatency,
     total_latency_ms |-> latency]

AlertContext(now, fleet, window) ==
    [current_time |-> now, home_id |-> "", fleet_size |-> fleet,
     eval_window_ms |-> window]

\* Math.ceil(a / b) for a >= 0 and b > 0
Ceil(a, b) == (a + b - 1) \div b
MaxOf(S) == CHOOSE x \in S : \A y \in S : y <= x

\* e.reconnection_count > 3
ReconnectSpike == 3
\* Math.max(5, Math.ceil(ctx.fleet_size * 0.05))
MinHomesFloor == 5
FleetSharePct == 5
\* clusteringRatio > 0.7
ClusteringPct == 70

ReconnectEvents(events) ==
    SelectSeq(events, LAMBDA e : /\ e.event_class = "mqtt_session"
                                 /\ e.reconnection_count > ReconnectSpike)
HomesAffected(reconnectEvents) ==
    {reconnectEvents[i].home_id : i \in 1..Len(reconnectEvents)}
MinHomesThreshold(ctx) ==
    MaxOf({MinHomesFloor, Ceil(ctx.fleet_size * FleetSharePct, 100)})
\* e.location_geohash || "unknown"
Geohash(e) == IF e.location_geohash = "" THEN "unknown" ELSE e.location_geohash
GeohashCount(reconnectEvents, g) ==
    Cardinality({i \in 1..Len(reconnectEvents) : Geohash(reconnectEvents[i]) = g})
TopGeohashCount(reconnectEvents) ==
    MaxOf({GeohashCount(reconnectEvents, Geohash(reconnectEvents[i])) :
             i \in 1..Len(reconnectEvents)})

\* ALERT_RULE_COORDINATED_RECONNECT_STORM.condition(events, ctx)
ReconnectStormCondition(events, ctx) ==
    LET reconnectEvents == ReconnectEvents(events)
    IN  IF Cardinality(HomesAffected(reconnectEvents)) < MinHomesThreshold(ctx)
        THEN FALSE
        ELSE 100 * TopGeohashCount(reconnectEvents)
               > ClusteringPct * Len(reconnectEvents)

\* if (cmdEvents.length < 10) ..., if (relevantEvents.length < 10) ...
MinSample == 10
\* ctx.baseline_metrics?.eval_window_ms || 600000
DefaultEvalWindowMs == 600000
\* percentile(latencies, 0.99)
PercentileRank == 99
\* p99 > 2000
LatencySloMs == 2000

\* arr.slice().sort((a, b) => a - b): the element at place i is the value
\* with fewer than i smaller elements and at least i elements up to it
SortAscending(arr) ==
    [i \in 1..Len(arr) |->
        CHOOSE v \in Range(arr) :
           /\ Cardinality({j \in 1..Len(arr) : arr[j] < v}) < i
           /\ i <= Cardinality({j \in 1..Len(arr) : arr[j] <= v})]

\* percentile(arr, p), p in hundredths, arr not empty; indices from 0
Percentile(arr, pct) ==
    LET sorted == SortAscending(arr)
        index == Ceil(Len(sorted) * pct, 100) - 1
    IN  sorted[MaxOf({0, index}) + 1]

CmdEvents(events) ==
    SelectSeq(events, LAMBDA e : e.event_class = "command_execution")
RecentThreshold(ctx) ==
    ctx.current_time - (IF ctx.eval_window_ms = 0 THEN DefaultEvalWindowMs
                        ELSE ctx.eval_window_ms)
RelevantEvents(events, ctx) ==
    SelectSeq(CmdEvents(events),
              LAMBDA e : e.submitted_timestamp > RecentThreshold(ctx))
Latencies(relevantEvents) ==
    LET with == SelectSeq(relevantEvents, LAMBDA e : e.has_latency)
    IN  [i \in 1..Len(with) |-> with[i].total_latency_ms]

\* ALERT_RULE_LATENCY_P99_BREACH.condition(events, ctx)
LatencyP99Condition(events, ctx) ==
    IF Len(CmdEvents(events)) < MinSample THEN FALSE
    ELSE IF Len(RelevantEvents(events, ctx)) < MinSample THEN FALSE
    ELSE LET latencies == Latencies(RelevantEvents(events, ctx))
         IN  IF Len(latencies) = 0 THEN FALSE
             ELSE Percentile(latencies, PercentileRank) > LatencySloMs

(***************************************************************************)
(* The windows handed to the conditions.                                   *)
(***************************************************************************)
MaxStormHomes == 7
MaxRepeats == 3
MaxRecent == 11
LargeSample == 101
ConditionNow == 1000000

FleetSizes == {0, 100, 101, 120}
EvalWindows == {0, 300000}

\* n homes with one reconnect spike each, the first k of them in one
\* geohash cell and the others without a cell; d more spikes of home 1;
\* x sessions of another home with exactly 3 reconnections
StormWindow(n, k, d, x) ==
    [i \in 1..n |->
        WindowEvent("mqtt_session", i, ReconnectSpike + 1,
                    IF i <= k THEN "9q8yy" ELSE "", 0, FALSE, 0)]
    \o [i \in 1..d |->
        WindowEvent("mqtt_session", 1, ReconnectSpike + 2,
                    IF 1 <= k THEN "9q8yy" ELSE "", 0, FALSE, 0)]
    \o [i \in 1..x |->
        WindowEvent("mqtt_session", n + 1, ReconnectSpike, "9q8yy", 0,
                    FALSE, 0)]

StormWindows ==
    {StormWindow(n, k, d, x) :
       n \in 0..MaxStormHomes, k \in 0..MaxStormHomes, d \in 0..MaxRepeats,
       x \in 0..1}

\* r commands submitted inside the window, w of them with a latency, h of
\* these above the objective and the others exactly at it; o commands
\* submitted at the edge of the window, slow; x events of another class
LatencyWindow(r, w, h, o, x) ==
    [i \in 1..r |->
        WindowEvent("command_execution", 1, 0, "", ConditionNow - 1000,
                    i <= w,
                    IF i > w THEN 0
                    ELSE IF i <= h THEN LatencySloMs + i
                    ELSE LatencySloMs)]
    \o [i \in 1..o |->
        WindowEvent("command_execution", 1, 0, "",
                    ConditionNow - DefaultEvalWindowMs, TRUE,
                    3 * LatencySloMs)]
    \o [i \in 1..x |->
        WindowEvent("mqtt_session", 1, 0, "", 0, FALSE, 0)]

LatencyWindows ==
    {LatencyWindow(r, w, h, o, x) :
       r \in 0..MaxRecent, w \in 0..MaxRecent, h \in 0..MaxRecent,
       o \in 0..1, x \in 0..1}
    \cup {LatencyWindow(LargeSample, LargeSample, h, 0, 0) : h \in 0..2}

\* the condition of the reconnect storm rule is called
EvaluateReconnectStorm ==
    /\ conditionCall.stage = "input"
    /\ conditionCall.rule = "fleet_coordinated_reconnect_storm"
    /\ conditionCall' =
          [conditionCall EXCEPT
             !.stage = "evaluated",
             !.fired = ReconnectStormCondition(conditionCall.events,
                                               conditionCall.ctx)]
    /\ UNCHANGED <<avars, ivars, wvars, cvars, traceCall, correlateCall,
                 walkCall>>

\* the condition of the latency rule is called
EvaluateLatencyP99 ==
    /\ conditionCall.stage = "input"
    /\ conditionCall.rule = "slo_latency_p99_breach"
    /\ conditionCall' =
          [conditionCall EXCEPT
             !.stage = "evaluated",
             !.fired = LatencyP99Condition(conditionCall.events,
                                           conditionCall.ctx)]
    /\ UNCHANGED <<avars, ivars, wvars, cvars, traceCall, correlateCall,
                 walkCall>>

ConditionInit ==
    /\ Idle
    /\ traceCall = NoTraceCall
    /\ correlateCall = NoCorrelateCall
    /\ walkCall = NoWalkCall
    /\ \/ \E w \in StormWindows, f \in FleetSizes :
             conditionCall =
                [NoConditionCall EXCEPT
                   !.stage = "input",
                   !.rule = "fleet_coordinated_reconnect_storm",
                   !.events = w,
                   !.ctx = AlertContext(ConditionNow, f, 0)]
       \/ \E w \in LatencyWindows, e \in EvalWindows :
             conditionCall =
                [NoConditionCall EXCEPT
                   !.stage = "input",
                   !.rule = "slo_latency_p99_breach",
                   !.events = w,
                   !.ctx = AlertContext(ConditionNow, 0, e)]

ConditionNext == EvaluateReconnectStorm \/ EvaluateLatencyP99

SpecConditions == ConditionInit /\ [][ConditionNext]_vars

\* a rule's condition has been evaluated
Evaluated(rule) ==
    /\ conditionCall.stage = "evaluated"
    /\ conditionCall.rule = rule

(***************************************************************************)
(* C19.  The condition of the coordinated reconnect storm rule is true     *)
(* exactly when the number of distinct homes with an mqtt_session event of *)
(* reconnection_count > 3 is strictly greater than                         *)
(* max(5, ceil(fleet_size * 0.05)) and the most frequent geohash cell has  *)
(* more than 70% of those events; with exactly that many homes it does not *)
(* fire.                                                                   *)
(***************************************************************************)
SpikingHomes ==
    {conditionCall.events[i].home_id :
       i \in {j \in 1..Len(conditionCall.events) :
                /\ conditionCall.events[j].event_class = "mqtt_session"
                /\ conditionCall.events[j].reconnection_count > 3}}

Clustered ==
    LET spikes == ReconnectEvents(conditionCall.events)
    IN  /\ Len(spikes) > 0
        /\ 10 * TopGeohashCount(spikes) > 7 * Len(spikes)

C19_StormNeedsMoreHomesThanThreshold ==
    Evaluated("fleet_coordinated_reconnect_storm") =>
      (conditionCall.fired
         <=> /\ Cardinality(SpikingHomes) > MinHomesThreshold(conditionCall.ctx)
             /\ Clustered)

\* what the code does: as many homes as the threshold are enough
StormFiresFromThreshold ==
    Evaluated("fleet_coordinated_reconnect_storm") =>
      (conditionCall.fired
         <=> /\ Cardinality(SpikingHomes) >= MinHomesThreshold(conditionCall.ctx)
             /\ Clustered)

\* exactly as many homes as the threshold, clustered: the condition is true
StormFiresAtThreshold ==
    /\ Evaluated("fleet_coordinated_reconnect_storm")
    /\ Cardinality(SpikingHomes) = MinHomesThreshold(conditionCall.ctx)
    /\ conditionCall.fired

\* exactly 70% of the events in one cell: not clustered
SeventyPercentIsNotEnough ==
    /\ Evaluated("fleet_coordinated_reconnect_storm")
    /\ Cardinality(SpikingHomes) > MinHomesThreshold(conditionCall.ctx)
    /\ LET spikes == ReconnectEvents(conditionCall.events)
       IN  10 * TopGeohashCount(spikes) = 7 * Len(spikes)
    /\ ~conditionCall.fired

(***************************************************************************)
(* C20.  The condition of the latency P99 rule needs at least 10           *)
(* command_execution events of the evaluation window that carry            *)
(* total_latency_ms; with n >= 10 such latencies it is true exactly when   *)
(* the one at index ceil(n * 0.99) - 1 of the ascending array is above     *)
(* 2000 ms (the maximum, for 10 values); with fewer than 10 latencies it   *)
(* is false.                                                               *)
(***************************************************************************)
\* the latencies carried by the commands submitted inside the window
WindowLatencies ==
    LET inside == {i \in 1..Len(conditionCall.events) :
                     /\ conditionCall.events[i].event_class = "command_execution"
                     /\ conditionCall.events[i].submitted_timestamp
                          > RecentThreshold(conditionCall.ctx)
                     /\ conditionCall.events[i].has_latency}
    IN  SelectSeq([i \in 1..Len(conditionCall.events) |->
                      IF i \in inside
                      THEN conditionCall.events[i].total_latency_ms ELSE -1],
                  LAMBDA v : v >= 0)

\* the value at index ceil(n * 0.99) - 1, from 0, of the ascending array
NearestRankP99(latencies) ==
    SortAscending(latencies)[Ceil(Len(latencies) * 99, 100)]

C20_LatencyNeedsTenLatencies ==
    Evaluated("slo_latency_p99_breach") =>
      (conditionCall.fired
         <=> /\ Len(WindowLatencies) >= 10
             /\ NearestRankP99(WindowLatencies) > 2000)

\* what the code does: ten commands inside the window, one latency or more
LatencyFiresOnAnyLatency ==
    Evaluated("slo_latency_p99_breach") =>
      (conditionCall.fired
         <=> /\ Len(RelevantEvents(conditionCall.events, conditionCall.ctx))
                  >= 10
             /\ Len(WindowLatencies) >= 1
             /\ NearestRankP99(WindowLatencies) > 2000)

\* with ten latencies or more the condition is the claimed one
LatencyFiresOnP99GivenSample ==
    (Evaluated("slo_latency_p99_breach") /\ Len(WindowLatencies) >= 10) =>
      (conditionCall.fired <=> NearestRankP99(WindowLatencies) > 2000)

\* fewer than ten latencies, and the condition is true
FiresOnFewLatencies ==
    /\ Evaluated("slo_latency_p99_breach")
    /\ Len(WindowLatencies) < 10
    /\ conditionCall.fired

\* the value of rank 99% is not the maximum: one slow command in 101
OneSlowCommandInManyPasses ==
    /\ Evaluated("slo_latency_p99_breach")
    /\ Len(WindowLatencies) > 100
    /\ \E i \in 1..Len(WindowLatencies) : WindowLatencies[i] > 2000
    /\ ~conditionCall.fired

(***************************************************************************)
(* correlateAlerts (alerts.ts).  An alert is kept by the fields the        *)
(* function reads and writes; a correlated_with that was never set is the  *)
(* empty list.  The Map of groups keeps its keys in the order of their     *)
(* first insertion.                                                        *)
(***************************************************************************)
CorrelatedAlert(id, rule, resources) ==
    [alert_id |-> id, rule_id |-> rule, affected_resources |-> resources,
     correlated_with |-> <<>>]

\* `${resource}_${alert.rule_id}`
CorrelationKey(resource, rule) == resource \o "_" \o rule

\* the first loop: the pushes, in order, from resource j of alert i on
RECURSIVE Pushes(_, _, _)
Pushes(alerts, i, j) ==
    IF i > Len(alerts) THEN <<>>
    ELSE IF j > Len(alerts[i].affected_resources)
    THEN Pushes(alerts, i + 1, 1)
    ELSE <<[key |-> CorrelationKey(alerts[i].affected_resources[j],
                                   alerts[i].rule_id),
            alert |-> i]>>
         \o Pushes(alerts, i, j + 1)

\* the keys of the Map, each at the place of its first insertion
RECURSIVE KeysInOrder(_, _, _)
KeysInOrder(pushes, i, seen) ==
    IF i > Len(pushes) THEN <<>>
    ELSE IF pushes[i].key \in seen THEN KeysInOrder(pushes, i + 1, seen)
    ELSE <<pushes[i].key>>
         \o KeysInOrder(pushes, i + 1, seen \cup {pushes[i].key})

\* correlated.get(key): the alerts pushed under the key, by their place
AlertsInGroup(pushes, key) ==
    LET under == SelectSeq(pushes, LAMBDA q : q.key = key)
    IN  [i \in 1..Len(under) |-> under[i].alert]

\* alertsInGroup.filter((a) => a.alert_id !== alert.alert_id).map(...)
Siblings(alerts, group, id) ==
    LET others == SelectSeq(group, LAMBDA g : alerts[g].alert_id # id)
    IN  [i \in 1..Len(others) |-> alerts[others[i]].alert_id]

\* the second loop, from the k-th group on: each group of more than one
\* alert assigns correlated_with of its members
RECURSIVE AddCorrelation(_, _, _, _)
AddCorrelation(alerts, pushes, keys, k) ==
    IF k > Len(keys) THEN alerts
    ELSE LET group == AlertsInGroup(pushes, keys[k])
             assigned ==
                [i \in 1..Len(alerts) |->
                    IF Len(group) > 1 /\ i \in Range(group)
                    THEN [alerts[i] EXCEPT
                            !.correlated_with =
                               Siblings(alerts, group, alerts[i].alert_id)]
                    ELSE alerts[i]]
         IN  AddCorrelation(assigned, pushes, keys, k + 1)

\* correlateAlerts(alerts)
CorrelateAlertsOf(alerts) ==
    LET pushes == Pushes(alerts, 1, 1)
    IN  AddCorrelation(alerts, pushes, KeysInOrder(pushes, 1, {}), 1)

MaxAlerts == 3

\* alerts of two rules whose alerts name devices or homes, with distinct ids
CorrelatedRules == {"cert_expiry_24h", "infra_ota_rollback_rate"}
ResourceLists ==
    {<<>>, <<"dev1">>, <<"dev2">>, <<"dev1", "dev2">>, <<"dev2", "dev1">>}
AlertIds == <<"alert_1", "alert_2", "alert_3", "alert_4", "alert_5">>
AlertLists ==
    UNION {{[i \in 1..n |-> CorrelatedAlert(AlertIds[i], rule[i], res[i])] :
              rule \in [1..n -> CorrelatedRules],
              res \in [1..n -> ResourceLists]} :
           n \in 0..MaxAlerts}

\* correlateAlerts is called
CorrelateAlerts ==
    /\ correlateCall.stage = "input"
    /\ correlateCall' =
          [stage |-> "correlated",
           alerts |-> CorrelateAlertsOf(correlateCall.alerts)]
    /\ UNCHANGED <<avars, ivars, wvars, cvars, traceCall, conditionCall,
                 walkCall>>

CorrelateInit ==
    /\ Idle
    /\ traceCall = NoTraceCall
    /\ conditionCall = NoConditionCall
    /\ walkCall = NoWalkCall
    /\ \E a \in AlertLists : correlateCall = [stage |-> "input", alerts |-> a]

CorrelateNext == CorrelateAlerts

SpecCorrelate == CorrelateInit /\ [][CorrelateNext]_vars

(***************************************************************************)
(* C21.  After correlateAlerts, any two distinct alerts of the same rule   *)
(* that share an affected resource list each other's alert_id in           *)
(* correlated_with, also when an alert has several affected resources, and *)
(* no alert lists its own alert_id.                                        *)
(***************************************************************************)
Correlated == correlateCall.stage = "correlated"

Related(a, b) ==
    /\ a.alert_id # b.alert_id
    /\ a.rule_id = b.rule_id
    /\ Range(a.affected_resources) \cap Range(b.affected_resources) # {}

C21_CorrelationIsSymmetric ==
    Correlated =>
      LET alerts == correlateCall.alerts
      IN  \A i, j \in 1..Len(alerts) :
             /\ Related(alerts[i], alerts[j])
                   => alerts[j].alert_id \in Range(alerts[i].correlated_with)
             /\ alerts[i].alert_id \notin Range(alerts[i].correlated_with)

\* no alert lists itself
NoAlertListsItself ==
    Correlated =>
      \A i \in 1..Len(correlateCall.alerts) :
         correlateCall.alerts[i].alert_id
            \notin Range(correlateCall.alerts[i].correlated_with)

\* alerts with one affected resource at most list all their siblings
SingleResourceAlertsAreSymmetric ==
    (Correlated
       /\ \A i \in 1..Len(correlateCall.alerts) :
             Len(correlateCall.alerts[i].affected_resources) <= 1)
      => C21_CorrelationIsSymmetric

\* two alerts of one resource each are correlated with each other
PairCorrelated ==
    /\ Correlated
    /\ \E i, j \in 1..Len(correlateCall.alerts) :
          /\ Related(correlateCall.alerts[i], correlateCall.alerts[j])
          /\ Len(correlateCall.alerts[i].affected_resources) = 1
          /\ Len(correlateCall.alerts[j].affected_resources) = 1
          /\ correlateCall.alerts[j].alert_id
                \in Range(correlateCall.alerts[i].correlated_with)

(***************************************************************************)
(* An engine constructed with one rule of the catalog: evaluateRules with  *)
(* the rule's own condition, create_alert and dedup_key_fn.  Keys are the  *)
(* strings the code builds.  With one rule nothing is left to do once the  *)
(* awaited alertSink has taken the alert, so that the call is one step.    *)
(***************************************************************************)
LatencyBucketMs == 600000
LatencyDedupWindowSeconds == 300
StormBucketMs == 300000
StormDedupWindowSeconds == 900

CatalogRules ==
    {"slo_latency_p99_breach", "fleet_coordinated_reconnect_storm",
     "security_replay_attack_probable"}

\* rule.condition(events, ctx)
CatalogCondition(rule, events, ctx) ==
    CASE rule = "slo_latency_p99_breach" -> LatencyP99Condition(events, ctx)
      [] rule = "fleet_coordinated_reconnect_storm" ->
           ReconnectStormCondition(events, ctx)
      [] OTHER -> Condition(rule, events, ctx)

\* `${x}` for a device_id that is null ("") or a string
NullOr(dev) == IF dev = "" THEN "null" ELSE dev

\* [...new Set(reconnectEvents.map((e) => e.home_id))]
HomesInOrder(reconnectEvents) ==
    LET first == SelectSeq([i \in 1..Len(reconnectEvents) |-> i],
                           LAMBDA i : \A j \in 1..(i - 1) :
                                         reconnectEvents[j].home_id
                                            # reconnectEvents[i].home_id)
    IN  [i \in 1..Len(first) |-> reconnectEvents[first[i]].home_id]

\* rule.create_alert(events, ctx): the fields the engine and the keys read;
\* a field that is undefined is "undefined"
CatalogAlert(id, rule, home, dev, resources, detected, key) ==
    [alert_id |-> id, rule_id |-> rule, home_id |-> home, device_id |-> dev,
     affected_resources |-> resources, detected_at |-> detected,
     status |-> "active", dedup_key |-> key]

CatalogCreateAlert(rule, events, ctx, id) ==
    CASE rule = "slo_latency_p99_breach" ->
           CatalogAlert(id, rule, ctx.home_id, "undefined", <<>>,
                        ctx.current_time,
                        "latency_p99_" \o ctx.home_id \o "_"
                           \o ToString(FloorDiv(ctx.current_time,
                                                LatencyBucketMs)))
      [] rule = "fleet_coordinated_reconnect_storm" ->
           CatalogAlert(id, rule, "undefined", "undefined",
                        HomesInOrder(ReconnectEvents(events)),
                        ctx.current_time,
                        "reconnect_storm_regional_"
                           \o ToString(FloorDiv(ctx.current_time,
                                                StormBucketMs)))
      [] OTHER ->
           LET critical == Filter(events, IsCriticalReplay)[1]
           IN  CatalogAlert(id, rule, critical.home_id,
                            DeviceOrUndefined(critical.device_id),
                            <<IF critical.device_id = "" THEN "unknown"
                              ELSE critical.device_id>>,
                            IF critical.wall_clock_timestamp = 0
                            THEN ctx.current_time
                            ELSE critical.wall_clock_timestamp,
                            "replay_" \o NullOr(critical.device_id) \o "_"
                               \o ToString(FloorDiv(
                                     critical.wall_clock_timestamp,
                                     ReplayBucketMs)))

\* rule.dedup_key_fn(alert)
CatalogDedupKeyFn(rule, alert) ==
    CASE rule = "slo_latency_p99_breach" ->
           "latency_p99_" \o alert.home_id \o "_"
              \o ToString(FloorDiv(alert.detected_at, LatencyBucketMs))
      [] rule = "fleet_coordinated_reconnect_storm" ->
           "reconnect_storm_"
              \o ToString(FloorDiv(alert.detected_at, StormBucketMs))
      [] OTHER ->
           "replay_" \o alert.device_id \o "_"
              \o ToString(FloorDiv(alert.detected_at, ReplayBucketMs))

\* rule.dedup_window_seconds
CatalogDedupWindowSeconds(rule) ==
    CASE rule = "slo_latency_p99_breach" -> LatencyDedupWindowSeconds
      [] rule = "fleet_coordinated_reconnect_storm" -> StormDedupWindowSeconds
      [] OTHER -> ReplayDedupWindowSeconds

\* !existingAlert || context.current_time - existingAlert.detected_at > ...
CatalogPassesDedup(h, key, rule, ctx) ==
    \/ ~MapHas(h, key)
    \/ ctx.current_time - MapGet(h, key).detected_at
         > CatalogDedupWindowSeconds(rule) * 1000

\* evaluateRules(events, ctx) of an engine whose only rule is rules[1]
EvaluateRule(events, ctx) ==
    /\ Len(rules) = 1
    /\ calls < MaxCalls
    /\ calls' = calls + 1
    /\ ctx.current_time >= clock
    /\ clock' = ctx.current_time
    /\ lastCall' = [events |-> events, ctx |-> ctx]
    /\ LET rule == rules[1]
       IN  IF CatalogCondition(rule, events, ctx)
           THEN LET alert == CatalogCreateAlert(rule, events, ctx, nextAlertId)
                    dedupKey == CatalogDedupKeyFn(rule, alert)
                IN  IF CatalogPassesDedup(alertHistory, dedupKey, rule, ctx)
                    THEN /\ alertHistory' = MapSet(alertHistory, dedupKey, alert)
                         /\ nextAlertId' = nextAlertId + 1
                         /\ notified' = notified \cup {alert.alert_id}
                    ELSE UNCHANGED <<alertHistory, nextAlertId, notified>>
           ELSE UNCHANGED <<alertHistory, nextAlertId, notified>>
    /\ UNCHANGED <<cycle, probeMode, sinkMode, threadBlocked, resolves, rules>>

\* the evaluation times: around the edge of a time bucket of every rule, and
\* later than a dedup window after it
BucketEdge == 2 * LatencyBucketMs
CatalogTimes ==
    {BucketEdge - 1, BucketEdge + 1, BucketEdge + 2,
     BucketEdge + LatencyDedupWindowSeconds * 1000 + 2,
     BucketEdge + StormDedupWindowSeconds * 1000 + 2}

CatalogContext(t) == [AlertContext(t, 100, 0) EXCEPT !.home_id = "h1"]

\* the windows: none; one in which the rule's condition holds at time t
\* (ten slow commands of the last second; five homes of one cell in a storm;
\* a critical replay event of a device or of no device, new or seen before)
FiringWindows(rule, t) ==
    CASE rule = "slo_latency_p99_breach" ->
           {[i \in 1..MinSample |->
                WindowEvent("command_execution", "h1", 0, "", t - 1000, TRUE,
                            LatencySloMs + 1)]}
      [] rule = "fleet_coordinated_reconnect_storm" ->
           {StormWindow(MinHomesFloor, MinHomesFloor, 0, 0)}
      [] OTHER ->
           {<<Ev("replay_protection", "h1", dev, ts, "critical", 97, FALSE)>> :
              dev \in {"d1", ""}, ts \in {t - 1, BucketEdge - 2}}

CatalogWindows(rule, t) == {<<>>} \cup FiringWindows(rule, t)

CatalogInit ==
    /\ EngineInit
    /\ probeMode = "disabled"
    /\ sinkMode = "resolves"
    /\ ServiceInit
    /\ backend = "none"
    /\ sink = "none"
    /\ verifier = "stub"
    /\ WsConstructed
    /\ NoPureCall
    /\ \E rule \in CatalogRules : rules = <<rule>>

CatalogNext ==
    \E t \in CatalogTimes :
       \E events \in CatalogWindows(rules[1], t) :
          EvaluateRule(events, CatalogContext(t))
             /\ UNCHANGED <<ivars, pvars, wvars>>

SpecCatalog == CatalogInit /\ [][CatalogNext]_vars

(***************************************************************************)
(* C22.  For every rule of the catalog, while the same condition keeps     *)
(* holding for the same home or device, an evaluation less than            *)
(* dedup_window_seconds after an alert of that condition computes the      *)
(* alert's dedup key again and emits nothing, also when the two times lie  *)
(* on different sides of an edge of the key's time bucket.                 *)
(***************************************************************************)
\* an alert of the same rule, home and device is in the table, detected
\* less than the rule's dedup window before the time of the context
AlertedWithinWindow(new, ctx) ==
    \E i \in 1..Len(alertHistory) :
       LET prior == alertHistory[i].alert
       IN  /\ prior.rule_id = new.rule_id
           /\ prior.home_id = new.home_id
           /\ prior.device_id = new.device_id
           /\ ctx.current_time - prior.detected_at
                < CatalogDedupWindowSeconds(new.rule_id) * 1000

C22_OneAlertPerDedupWindow ==
    [][\A t \in CatalogTimes :
          \A events \in FiringWindows(rules[1], t) :
             (/\ EvaluateRule(events, CatalogContext(t))
              /\ CatalogCondition(rules[1], events, CatalogContext(t))
              /\ AlertedWithinWindow(
                    CatalogCreateAlert(rules[1], events, CatalogContext(t), 0),
                    CatalogContext(t)))
               => notified' = notified]_vars

\* what the code does: nothing is emitted when the earlier alert is of the
\* same time bucket
OneAlertPerBucketAndWindow ==
    [][\A t \in CatalogTimes :
          \A events \in FiringWindows(rules[1], t) :
             (/\ EvaluateRule(events, CatalogContext(t))
              /\ CatalogCondition(rules[1], events, CatalogContext(t))
              /\ LET new == CatalogCreateAlert(rules[1], events,
                                               CatalogContext(t), 0)
                 IN  /\ AlertedWithinWindow(new, CatalogContext(t))
                     /\ MapHas(alertHistory,
                               CatalogDedupKeyFn(rules[1], new)))
               => notified' = notified]_vars

\* two alerts of the latency rule for one home, 2 ms apart
TwoLatencyAlertsAcrossEdge ==
    /\ rules = <<"slo_latency_p99_breach">>
    /\ \E i, j \in 1..Len(alertHistory) :
          /\ alertHistory[i].alert.detected_at = BucketEdge - 1
          /\ alertHistory[j].alert.detected_at = BucketEdge + 1
          /\ alertHistory[i].alert.home_id = alertHistory[j].alert.home_id

(***************************************************************************)
(* Specification of the ingest service with a storage backend plugged in   *)
(* that takes every write, started and stopped at some time.               *)
(***************************************************************************)
PluggedInit ==
    /\ ServiceInit
    /\ NoPureCall
    /\ WsConstructed
    /\ rules = Rules
    /\ backend = "up"
    /\ sink \in {"none", "up"}
    /\ verifier = "stub"
    /\ EngineInit
    /\ probeMode = "disabled"
    /\ sinkMode = "resolves"

PluggedNext ==
    \/ Start /\ UNCHANGED <<avars, pvars, wvars, cvars>>
    \/ \E h \in Handlers, m \in StartedMessages :
          Deliver(h, m) /\ UNCHANGED <<avars, pvars, wvars, cvars>>
    \/ \E h \in Handlers : WriteSettles(h) /\ UNCHANGED <<avars, pvars, wvars, cvars>>
    \/ Tick /\ UNCHANGED <<avars, pvars, wvars, cvars>>
    \/ FlushSettles /\ UNCHANGED <<avars, pvars, wvars, cvars>>
    \/ StopBegins /\ UNCHANGED <<avars, pvars, wvars, cvars>>
    \/ StopResumes /\ UNCHANGED <<avars, pvars, wvars, cvars>>

SpecPlugged == PluggedInit /\ [][PluggedNext]_vars

(***************************************************************************)
(* C23.  A flush started by the flush interval that is in flight when      *)
(* stop() is called completes (its writeEventBatch or its POST returns)    *)
(* before a storage handle is closed, and no flush is started by the       *)
(* interval once the handles are closed: close() is never invoked while    *)
(* such a flush is in progress.                                            *)
(***************************************************************************)
\* stop() has invoked close() on a storage handle
CloseInvoked ==
    lifecycle \in {"stop_close_hot", "stop_close_cold", "stop_close_trace",
                   "stopped"}
                /\ HasStorage

NoIntervalFlushAfterClose == [][CloseInvoked => ~Tick]_vars

\* stop() closes the storage while the interval's batch is being written
ClosedDuringWrite ==
    /\ CloseInvoked
    /\ flusher = "event_write"
    /\ BatchesOf("interval", 0) # {}

(***************************************************************************)
(* C24.  A flush in progress does not block appends and detaches its batch *)
(* atomically: an event appended to the event buffer while the interval's  *)
(* flush awaits the storage write is accepted in the same task, is not in  *)
(* the batch being written and stays buffered for a later flush (its own   *)
(* handler's, when the buffer is full again); and no event is in two       *)
(* batches, whatever handlers, capacity flushes and interval flushes do.   *)
(***************************************************************************)
\* the batches of events whose write is awaited
EventBatches ==
    {b \in batches :
        \/ b.by = "handler"
        \/ b.by = "interval" /\ flusher = "event_write"
        \/ b.by = "stop" /\ lifecycle = "stop_event_write"}

\* the ids of the events that are buffered or in a batch being written
HeldIds == Ids(eventBuffer) \cup UNION {b.ids : b \in EventBatches}

TwoFlushesInFlight ==
    /\ flusher = "event_write"
    /\ \E b \in EventBatches : b.by = "handler" /\ b.ids # {}

(***************************************************************************)
(* C25.  The metrics buffer is capped: whatever message handlers and       *)
(* metrics flushes do, with a slow or failing sink too, its length never   *)
(* exceeds a fixed bound (here the largest the code names for it, the 500  *)
(* events of one batch), and a flush is scheduled whenever its length      *)
(* exceeds the threshold of 100.                                           *)
(***************************************************************************)
C25_MetricsBufferIsCapped == Len(metricsBuffer) <= MetricsBatchMax

\* an event that leaves the buffer longer than the threshold schedules a
\* flush
FlushScheduledAboveThreshold ==
    [][(/\ Len(metricsBuffer') > Len(metricsBuffer)
        /\ Len(metricsBuffer') > MetricsFlushThreshold)
         => immediates' > immediates]_vars

\* the buffer is longer than a batch, with flushes scheduled and not yet run
LongerThanABatch ==
    /\ Len(metricsBuffer) > MetricsBatchMax
    /\ immediates > 0

(***************************************************************************)
(* C26.  After any sequence of evaluateRules calls, every alert of the     *)
(* alert-history table is stored under a key equal to its own dedup_key:   *)
(* for every rule of the catalog and every alert it creates,               *)
(* dedup_key_fn(alert) equals alert.dedup_key, also when the device_id of  *)
(* the event is null.                                                      *)
(***************************************************************************)
C26_StoredUnderOwnDedupKey ==
    \A i \in 1..Len(alertHistory) :
       alertHistory[i].alert.rule_id \in CatalogRules
          => alertHistory[i].key = alertHistory[i].alert.dedup_key

\* the alerts of the latency rule are stored under their dedup_key
LatencyStoredUnderOwnDedupKey ==
    \A i \in 1..Len(alertHistory) :
       alertHistory[i].alert.rule_id = "slo_latency_p99_breach"
          => alertHistory[i].key = alertHistory[i].alert.dedup_key

\* so are the alerts of the replay rule for an event that names its device
ReplayOfDeviceStoredUnderOwnDedupKey ==
    \A i \in 1..Len(alertHistory) :
       (/\ alertHistory[i].alert.rule_id = "security_replay_attack_probable"
        /\ alertHistory[i].alert.device_id # "undefined")
          => alertHistory[i].key = alertHistory[i].alert.dedup_key

\* an alert of the reconnect storm rule is stored under another key
StormStoredUnderOtherKey ==
    \E i \in 1..Len(alertHistory) :
       /\ alertHistory[i].alert.rule_id = "fleet_coordinated_reconnect_storm"
       /\ alertHistory[i].key # alertHistory[i].alert.dedup_key

\* an alert of the replay rule for an event without device, too
ReplayWithoutDeviceStoredUnderOtherKey ==
    \E i \in 1..Len(alertHistory) :
       /\ alertHistory[i].alert.rule_id = "security_replay_attack_probable"
       /\ alertHistory[i].alert.device_id = "undefined"
       /\ alertHistory[i].key # alertHistory[i].alert.dedup_key

\* an alert of the latency rule is stored
LatencyAlertStored ==
    /\ alertHistory # <<>>
    /\ alertHistory[1].alert.rule_id = "slo_latency_p99_breach"


(***************************************************************************)
(* C27.  Orphaned spans.                                                   *)
(***************************************************************************)
\* the ids of the spans of the trace
SpanIds(spans) == {spans[i].span_id : i \in 1..Len(spans)}
\* the spans whose parent_span_id names no span of the trace
Orphans(spans) ==
    {i \in 1..Len(spans) :
        /\ spans[i].parent_span_id # 0
        /\ spans[i].parent_span_id \notin SpanIds(spans)}
\* no span of the trace has an empty parent_span_id, and one is orphaned
OnlyOrphanRoots ==
    /\ Enriched
    /\ RootSpan(traceCall.trace.spans) = 0
    /\ Orphans(traceCall.trace.spans) # {}

\* C27: when no span of the trace has an empty parent_span_id and the parent
\* of one span is missing from the trace, enrichTrace returns a trace whose
\* authority_path is not empty and starts at an orphaned span.
C27_OrphanIsTreatedAsRoot ==
    OnlyOrphanRoots =>
        /\ traceCall.trace.authority_path # <<>>
        /\ \E i \in Orphans(traceCall.trace.spans) :
              traceCall.trace.authority_path[1] =
                  traceCall.trace.spans[i].authority_level

\* what enrichTrace does: it returns, and without a span of empty
\* parent_span_id the authority_path is empty
OrphansGiveEmptyPath ==
    (Enriched /\ RootSpan(traceCall.trace.spans) = 0) =>
        traceCall.trace.authority_path = <<>>

\* an orphan next to a span without parent does not disturb the path
OrphanBesideRootIsSkipped ==
    (Enriched /\ RootSpan(traceCall.trace.spans) # 0) =>
        /\ traceCall.trace.authority_path # <<>>
        /\ traceCall.trace.authority_path[1] =
              traceCall.trace.spans[RootSpan(traceCall.trace.spans)].authority_level

OrphanTraceEnriched == OnlyOrphanRoots /\ Len(traceCall.trace.spans) > 1


(***************************************************************************)
(* C28.  Possible escalations.                                             *)
(***************************************************************************)
Bounded == traceCall.stage = "bounded"
\* the tag initiates_planner_call is the boolean true or the string "true"
PlannerCallIsTrue(span) ==
    /\ span.tags.initiates_planner_call.type \in {"boolean", "string"}
    /\ span.tags.initiates_planner_call.text = "true"
DeviceCallsPlanner(span) ==
    span.authority_level = "Device" /\ PlannerCallIsTrue(span)
OperationNames(spans) == [i \in 1..Len(spans) |-> spans[i].operation_name]

\* C28: checkAuthorityBoundaries reports a possible escalation for a span
\* if and only if the span is of level Device and its tag
\* initiates_planner_call is the boolean true or the string "true", one
\* entry for each such span.
C28_EscalationPerDevicePlannerCall ==
    Bounded =>
        traceCall.boundaries.escalations =
            OperationNames(SelectSeq(traceCall.trace.spans, DeviceCallsPlanner))

\* what the check does: one entry for each Device span whose tag is the
\* string "true", and none for another span
EscalationPerStringTrue ==
    Bounded =>
        traceCall.boundaries.escalations =
            OperationNames(SelectSeq(traceCall.trace.spans, InitiatesPlannerCall))
StringTrueOfDevice(span) ==
    /\ span.authority_level = "Device"
    /\ span.tags.initiates_planner_call = [type |-> "string", text |-> "true"]
OnlyStringTrueEscalates ==
    Bounded =>
        Len(traceCall.boundaries.escalations) =
            Len(SelectSeq(traceCall.trace.spans, StringTrueOfDevice))

BooleanTrueOfDevice(span) ==
    /\ span.authority_level = "Device"
    /\ span.tags.initiates_planner_call = [type |-> "boolean", text |-> "true"]
BooleanTrueUnreported ==
    /\ Bounded
    /\ SelectSeq(traceCall.trace.spans, BooleanTrueOfDevice) # <<>>
    /\ traceCall.boundaries.escalations = <<>>
TwoEscalationsReported ==
    Bounded /\ Len(traceCall.boundaries.escalations) = 2
ViolationReported ==
    Bounded /\ traceCall.boundaries.violations # <<>>


(***************************************************************************)
(* The two loops over the spans of a trace, one step for each turn of the  *)
(* loop: the while loop of extractAuthorityPath, as enrichTrace calls it,  *)
(* and the while loop of getIndent, as the for loop of toTimeline calls it *)
(* for each span.  The spans are ExecutionSpans: span IDs may repeat and   *)
(* a parent_span_id may name any span.  depth counts up to DepthShown and  *)
(* stays there, which a chain of parents ending in a span without parent   *)
(* never reaches; turns is the number of turns of the loops so far, even   *)
(* (0) or odd (1).                                                         *)
(***************************************************************************)
MaxWalkSpans == 3
DepthShown == MaxWalkSpans

WalkSpan(id, parent, level, start) ==
    ToSpan(JaegerSpan(id, parent, level, FALSE, FALSE, "true", "", ""))
        @@ [started_at |-> start]

\* trace.spans.slice().sort((a, b) => a.started_at - b.started_at): the
\* sort keeps the order of spans that start together
SortedByStart(spans) ==
    LET before(i, j) ==
            \/ spans[i].started_at < spans[j].started_at
            \/ spans[i].started_at = spans[j].started_at /\ i < j
        rank(i) == 1 + Cardinality({j \in 1..Len(spans) : before(j, i)})
    IN  [k \in 1..Len(spans) |->
            spans[CHOOSE i \in 1..Len(spans) : rank(i) = k]]

\* enrichTrace reaches extractAuthorityPath: the span to start from
ExtractAuthorityPathBegins ==
    /\ walkCall.stage = "input"
    /\ walkCall.op = "path"
    /\ LET root == RootSpan(walkCall.spans)
           rootSpanId == IF root = 0 THEN 0 ELSE walkCall.spans[root].span_id
       IN  walkCall' = [walkCall EXCEPT
                          !.stage = "walking",
                          !.current = SpanWithId(walkCall.spans, rootSpanId)]
    /\ UNCHANGED <<avars, ivars, wvars, cvars, traceCall, conditionCall,
                   correlateCall>>

\* one turn of the while loop of extractAuthorityPath
WalkStep ==
    /\ walkCall.stage = "walking"
    /\ walkCall.current # 0
    /\ LET currentSpan == walkCall.spans[walkCall.current]
           level == currentSpan.authority_level
       IN  walkCall' = [walkCall EXCEPT
                          !.path = IF level \in Range(@) THEN @
                                   ELSE Append(@, level),
                          !.current = FirstChild(walkCall.spans,
                                                 currentSpan.span_id),
                          !.turns = 1 - @]
    /\ UNCHANGED <<avars, ivars, wvars, cvars, traceCall, conditionCall,
                   correlateCall>>

\* the while loop ends: extractAuthorityPath returns the path
WalkReturns ==
    /\ walkCall.stage = "walking"
    /\ walkCall.current = 0
    /\ walkCall' = [walkCall EXCEPT !.stage = "done"]
    /\ UNCHANGED <<avars, ivars, wvars, cvars, traceCall, conditionCall,
                   correlateCall>>

\* getIndent(spanId) up to its while loop
IndentFrom(call, at) ==
    [call EXCEPT !.at = at, !.depth = 0,
                 !.current = SpanWithId(call.spans, call.spans[at].span_id)]

\* toTimeline sorts the spans and reaches getIndent of the first one
ToTimelineBegins ==
    /\ walkCall.stage = "input"
    /\ walkCall.op = "timeline"
    /\ LET sortedSpans == SortedByStart(walkCall.spans)
       IN  walkCall' =
              IF sortedSpans = <<>>
              THEN [walkCall EXCEPT !.stage = "done"]
              ELSE IndentFrom([walkCall EXCEPT !.stage = "indenting",
                                               !.spans = sortedSpans], 1)
    /\ UNCHANGED <<avars, ivars, wvars, cvars, traceCall, conditionCall,
                   correlateCall>>

\* current?.parent_span_id
HasParent(call) ==
    call.current # 0 /\ call.spans[call.current].parent_span_id # 0

\* one turn of the while loop of getIndent
IndentStep ==
    /\ walkCall.stage = "indenting"
    /\ HasParent(walkCall)
    /\ walkCall' =
          [walkCall EXCEPT
             !.depth = IF @ < DepthShown THEN @ + 1 ELSE @,
             !.turns = 1 - @,
             !.current =
                SpanWithId(walkCall.spans,
                           walkCall.spans[walkCall.current].parent_span_id)]
    /\ UNCHANGED <<avars, ivars, wvars, cvars, traceCall, conditionCall,
                   correlateCall>>

\* getIndent returns the depth, the line of the span is written and the for
\* loop goes on to the next span
IndentReturns ==
    /\ walkCall.stage = "indenting"
    /\ ~HasParent(walkCall)
    /\ LET written == [walkCall EXCEPT !.indents = Append(@, walkCall.depth)]
       IN  walkCall' =
              IF walkCall.at = Len(walkCall.spans)
              THEN [written EXCEPT !.stage = "done"]
              ELSE IndentFrom(written, walkCall.at + 1)
    /\ UNCHANGED <<avars, ivars, wvars, cvars, traceCall, conditionCall,
                   correlateCall>>

\* span lists with repeated IDs, spans that are their own parent and parents
\* in a circle among them
WalkLevels == {"Device", "Cloud"}
PathWalkLists(n) ==
    {[i \in 1..n |-> WalkSpan(id[i], parent[i], level[i], i)] :
       id \in [1..n -> 1..n], parent \in [1..n -> 0..n],
       level \in [1..n -> WalkLevels]}
TimelineLists(n) ==
    {[i \in 1..n |->
         WalkSpan(id[i], parent[i], "Device", IF late THEN n + 1 - i ELSE 1)] :
       id \in [1..n -> 1..n], parent \in [1..n -> 0..n], late \in BOOLEAN}

WalkInit ==
    /\ Idle
    /\ traceCall = NoTraceCall
    /\ conditionCall = NoConditionCall
    /\ correlateCall = NoCorrelateCall
    /\ \/ \E n \in 0..MaxWalkSpans : \E spans \in PathWalkLists(n) :
             walkCall = [NoWalkCall EXCEPT !.stage = "input", !.op = "path",
                                           !.spans = spans]
       \/ \E n \in 0..MaxWalkSpans : \E spans \in TimelineLists(n) :
             walkCall = [NoWalkCall EXCEPT !.stage = "input",
                                           !.op = "timeline", !.spans = spans]

WalkNext ==
    \/ ExtractAuthorityPathBegins
    \/ WalkStep
    \/ WalkReturns
    \/ ToTimelineBegins
    \/ IndentStep
    \/ IndentReturns

SpecWalk == WalkInit /\ [][WalkNext]_vars

\* a call that has begun runs on: nothing else runs while the loops turn
FairSpecWalk == SpecWalk /\ WF_vars(WalkNext)

(***************************************************************************)
(* C29.  Termination of the walks.                                         *)
(***************************************************************************)
WalkDone == walkCall.stage = "done"

\* C29: the authority-path walk of enrichTrace and the depth computation
\* of toTimeline come to an end for every finite list of spans, also with
\* repeated span IDs, a span that is its own parent, or parents in a circle.
C29_WalksTerminate == <>WalkDone

UniqueSpanIds(spans) ==
    \A i, j \in 1..Len(spans) : spans[i].span_id = spans[j].span_id => i = j
ParentsComeFirst(spans) ==
    \A i \in 1..Len(spans) : spans[i].parent_span_id < spans[i].span_id

\* with span IDs that do not repeat, the path walk ends, whatever the parents
PathWalkOfUniqueIdsTerminates ==
    (walkCall.op = "path" /\ UniqueSpanIds(walkCall.spans)) ~> WalkDone
\* without a self-parent and a circle of parents, the timeline ends
TimelineOfForestTerminates ==
    (walkCall.op = "timeline" /\ ParentsComeFirst(walkCall.spans)) ~> WalkDone

\* the stepwise walk ends with the path that ExtractAuthorityPath gives
StepsAgreeWithExtractAuthorityPath ==
    (WalkDone /\ walkCall.op = "path" /\ UniqueSpanIds(walkCall.spans)) =>
        LET root == RootSpan(walkCall.spans)
        IN  walkCall.path =
               ExtractAuthorityPath(
                   walkCall.spans,
                   IF root = 0 THEN 0 ELSE walkCall.spans[root].span_id)

\* a walk passes a span that it has passed before
IndentTurnsInCircle ==
    walkCall.stage = "indenting" /\ walkCall.depth = DepthShown
PathWalkBackAtRepeatedId ==
    /\ walkCall.stage = "walking"
    /\ walkCall.current # 0
    /\ walkCall.path # <<>>
    /\ FirstChild(walkCall.spans, walkCall.spans[walkCall.current].span_id)
          = walkCall.current
TimelineWritten ==
    /\ WalkDone
    /\ walkCall.op = "timeline"
    /\ \E k \in 1..Len(walkCall.indents) : walkCall.indents[k] = 2


(***************************************************************************)
(* WsClient (src/lib/ws.ts): its methods and the handlers it gives to each *)
(* WebSocket it creates.  The handlers stay on a socket for as long as the *)
(* socket lives, whether this.socket still names it or not.  A timer that  *)
(* has fired once (setTimeout) or was cleared is not set any more.         *)
(***************************************************************************)
MAX_DELAY_MS == 30000
PING_INTERVAL_MS == 25000
MaxSockets == 3
MaxTimers == 4

\* setTimeout or setInterval: the timers with one more, and its number
TimerSet(ts, kind, delay) ==
    Append(ts, [kind |-> kind, delay |-> delay, set |-> TRUE])
\* clearTimeout(t), clearInterval(t)
TimerCleared(ts, t) ==
    IF t = 0 THEN ts ELSE [ts EXCEPT ![t].set = FALSE]

\* the state of the client as a record, for the private methods
WsState ==
    [socket |-> socket, reconnectDelay |-> reconnectDelay,
     reconnectTimer |-> reconnectTimer, pingTimer |-> pingTimer,
     destroyed |-> destroyed, sockets |-> sockets, timers |-> timers]

\* stopPing()
StopPing(st) ==
    IF st.pingTimer # 0
    THEN [st EXCEPT !.timers = TimerCleared(@, st.pingTimer), !.pingTimer = 0]
    ELSE st

\* startPing()
StartPing(st) ==
    LET stopped == StopPing(st)
    IN  [stopped EXCEPT !.timers = TimerSet(@, "interval", PING_INTERVAL_MS),
                        !.pingTimer = Len(stopped.timers) + 1]

Min2(a, b) == IF a < b THEN a ELSE b

\* scheduleReconnect()
ScheduleReconnect(st) ==
    IF st.destroyed THEN st
    ELSE [st EXCEPT
            !.timers = TimerSet(@, "timeout", st.reconnectDelay),
            !.reconnectTimer = Len(st.timers) + 1,
            !.reconnectDelay = Min2(st.reconnectDelay * 2, MAX_DELAY_MS)]

\* connect()
ConnectOf(st) ==
    IF st.destroyed THEN st
    ELSE [st EXCEPT !.sockets = Append(@, "CONNECTING"),
                    !.socket = Len(st.sockets) + 1]

\* disconnect()
DisconnectOf(st) ==
    LET stopped == [StopPing(st) EXCEPT !.destroyed = TRUE]
        cleared ==
            IF stopped.reconnectTimer # 0
            THEN [stopped EXCEPT
                    !.timers = TimerCleared(@, stopped.reconnectTimer),
                    !.reconnectTimer = 0]
            ELSE stopped
    IN  IF cleared.socket # 0
        THEN [cleared EXCEPT
                !.sockets[cleared.socket] =
                    IF @ \in {"CONNECTING", "OPEN"} THEN "CLOSING" ELSE @,
                !.socket = 0]
        ELSE cleared

\* the client is in state st after the step
WsBecomes(st) ==
    /\ socket' = st.socket
    /\ reconnectDelay' = st.reconnectDelay
    /\ reconnectTimer' = st.reconnectTimer
    /\ pingTimer' = st.pingTimer
    /\ destroyed' = st.destroyed
    /\ sockets' = st.sockets
    /\ timers' = st.timers
    /\ UNCHANGED <<avars, ivars, pvars, cvars>>

\* the page calls connect()
Connect ==
    /\ Len(sockets) < MaxSockets
    /\ WsBecomes(ConnectOf(WsState))

\* the page calls disconnect()
Disconnect == WsBecomes(DisconnectOf(WsState))

\* the connection of socket s is established: its onopen runs
SocketOpens(s) ==
    /\ sockets[s] = "CONNECTING"
    /\ Len(timers) < MaxTimers
    /\ WsBecomes(StartPing([WsState EXCEPT
                              !.sockets[s] = "OPEN",
                              !.reconnectDelay = INITIAL_DELAY_MS]))

\* socket s fails or is closed by either side: its onclose runs
SocketCloses(s) ==
    /\ sockets[s] # "CLOSED"
    /\ Len(timers) < MaxTimers
    /\ WsBecomes(ScheduleReconnect(
                     StopPing([WsState EXCEPT !.sockets[s] = "CLOSED"])))

\* socket s has an error: its onerror passes it to opts.onError
SocketErrors(s) ==
    /\ sockets[s] # "CLOSED"
    /\ WsBecomes(WsState)

\* the timeout t of scheduleReconnect fires
ReconnectFires(t) ==
    /\ timers[t].kind = "timeout"
    /\ timers[t].set
    /\ Len(sockets) < MaxSockets
    /\ WsBecomes(ConnectOf([WsState EXCEPT !.timers[t].set = FALSE]))

\* the interval t of startPing fires: a ping is sent when this.socket is open
PingFires(t) ==
    /\ timers[t].kind = "interval"
    /\ timers[t].set
    /\ WsBecomes(WsState)

WsInit == Idle /\ NoPureCall

WsNext ==
    \/ Connect
    \/ Disconnect
    \/ \E s \in 1..Len(sockets) : SocketOpens(s)
    \/ \E s \in 1..Len(sockets) : SocketCloses(s)
    \/ \E s \in 1..Len(sockets) : SocketErrors(s)
    \/ \E t \in 1..Len(timers) : ReconnectFires(t)
    \/ \E t \in 1..Len(timers) : PingFires(t)

SpecWs == WsInit /\ [][WsNext]_vars

(***************************************************************************)
(* C30.  After disconnect().                                               *)
(***************************************************************************)
SetTimers == {t \in 1..Len(timers) : timers[t].set}
\* a socket has just closed
JustClosed ==
    \E s \in 1..Len(sockets) : sockets[s] # "CLOSED" /\ sockets'[s] = "CLOSED"
\* one more timer is set, a reconnect, and no other is
OneReconnectScheduled ==
    /\ Len(timers') = Len(timers) + 1
    /\ timers'[Len(timers')].kind = "timeout"
    /\ timers'[Len(timers')].set
    /\ reconnectTimer' = Len(timers')
    /\ \A t \in 1..Len(timers) : timers'[t].set => timers[t].set

NoTimerAfterDisconnect == destroyed => SetTimers = {}
NoSocketAfterDisconnectStep == destroyed => Len(sockets') = Len(sockets)
NoTimerScheduledAfterDisconnectStep ==
    destroyed => Len(timers') = Len(timers)
CloseSchedulesOneReconnectStep ==
    (~destroyed /\ JustClosed) => OneReconnectScheduled

\* C30: once disconnect() was called no WebSocket is created and no
\* reconnect timer and no ping timer is set or gets set, whatever events of
\* sockets and calls of connect() follow; before disconnect(), every close
\* of a socket schedules exactly one reconnect.
C30_DisconnectIsFinal ==
    /\ []NoTimerAfterDisconnect
    /\ [][/\ NoSocketAfterDisconnectStep
          /\ NoTimerScheduledAfterDisconnectStep
          /\ CloseSchedulesOneReconnectStep]_vars

\* the parts of it that hold
NoSocketAfterDisconnect == [][NoSocketAfterDisconnectStep]_vars
CloseSchedulesOneReconnect == [][CloseSchedulesOneReconnectStep]_vars
NoReconnectScheduledAfterDisconnect ==
    [][destroyed =>
         \A t \in 1..Len(timers') :
            (t > Len(timers) /\ timers'[t].set) => timers'[t].kind = "interval"
      ]_vars
\* for a client that has created one WebSocket, nothing is left
SingleSocketDisconnectIsFinal ==
    (destroyed /\ Len(sockets) <= 1) => SetTimers = {}
\* disconnect() leaves its own fields empty
DisconnectClearsFields ==
    destroyed => (socket = 0 /\ reconnectTimer = 0)

PingSetAfterDisconnect ==
    /\ destroyed
    /\ pingTimer # 0
    /\ timers[pingTimer].set
ReconnectLeftAfterDisconnect ==
    /\ destroyed
    /\ \E t \in SetTimers : timers[t].kind = "timeout"
ReconnectBackedOff ==
    ~destroyed /\ reconnectDelay = 4 * INITIAL_DELAY_MS

====
